---- MODULE Spec2Model ----
(***************************************************************************)
(* Rating-region store, temporal rate cache and build orchestrator of the  *)
(* Medicare supplement quote engine (build_duckdb.py, async_csg.py,        *)
(* spot_check.py, app/models.py, app/routers/quotes.py).                   *)
(*                                                                         *)
(* The DuckDB tables are the state.  Every handler that has no await in    *)
(* it runs atomically on the event loop and is one action.                 *)
(***************************************************************************)
EXTENDS Integers, Sequences, FiniteSets, TLC

VARIABLES
    rate_regions,      \* table rate_regions    (PRIMARY KEY region_id)
    region_metadata,   \* table region_metadata (PRIMARY KEY region_id)
    region_mapping,    \* table region_mapping  (PRIMARY KEY zip_code, county, naic)
    rate_store,        \* table rate_store      (PRIMARY KEY all columns but rate, discount_rate)
    processed_data,    \* table processed_data  (PRIMARY KEY state, naic, effective_date)
    correction_log,    \* the rate_corrections_*.log file of the latest save_rates call
    next_uuid,         \* the next fresh value uuid.uuid4() hands out
    unit,              \* per unit of work: position in process_carrier_state and its locals
    obs,               \* the latest call: its name, its arguments and what it returned
    source,            \* the quote source: per carrier and ZIP code, the location group it reports
    spot,              \* RateSpotChecker.spot_check_carrier: its position and its locals
    key_rate_store,    \* table rate_store of build_db_new.py (PRIMARY KEY key, effective_date)
    permits,           \* the values of GLOBAL_SEMAPHORE and of demographic_semaphore
    task,              \* per task of the build that talks to the source: its position
    request            \* AsyncCSGRequest.get: the call in progress, its attempt and its log

\* The tables of the DuckDB database and the units of the build.
build_vars == <<rate_regions, region_metadata, region_mapping, rate_store,
                processed_data, correction_log, next_uuid, unit>>

\* The state outside the DuckDB database.
other_vars == <<source, spot, key_rate_store, permits, task, request>>

vars == <<rate_regions, region_metadata, region_mapping, rate_store,
          processed_data, correction_log, next_uuid, unit, obs,
          source, spot, key_rate_store, permits, task, request>>

-----------------------------------------------------------------------------
(* Bounds of the model *)

MaxRegionIds == 3      \* region identifiers that uuid4 may hand out in one behaviour
MaxRegionsPerSave == 2 \* regions in one discovery result
MaxRates == 4          \* rate records in one save_rates call
BatchSize == 3         \* rows per rate batch (500 in the code, scaled)
MaxBatchErrors == 5    \* failed batches after which save_rates gives up
MaxStoreRows == 3      \* rows of rate_store in the lookup specification
MaxDay == 3            \* calendar days an effective date can fall on
MaxQuotes == 2         \* quotes in one response of the rate source
MAX_CONNECTIONS == 2   \* permits of GLOBAL_SEMAPHORE (100 in the code, scaled)
DemographicPermits == 1 \* permits of demographic_semaphore (30 in the code, scaled)
MaxFallback == 2       \* longest zip5_fallback list of fetch_helper
MaxFetchRetry == 2     \* largest retry argument of fetch_helper
MaxEmptyAttempts == 2  \* largest max_empty_attempts of fetch_helper
MaxRetry == 4          \* largest retry argument of get (3 by default, 4 in load_response_inner)
max_consecutive_empty_results == 1 \* empty probes in a row a discovery may see (5 in calc_naic_map_combined, scaled)

-----------------------------------------------------------------------------
(* Reference data *)

NAICS == {"n1", "n2"}
STATES == {"s1"}
ZIPS == {"z1", "z2", "z3"}
COUNTIES == {"c1", "c2"}

\* The order Python's sorted() gives the location strings.
LocOrder == <<"c1", "c2", "z1", "z2", "z3">>

\* zipHolder.zip_by_county: z2 lies in both counties.
lookup_zip_by_county(state, county) ==
    IF state = "s1" /\ county = "c1" THEN <<"z1", "z2">>
    ELSE IF state = "s1" /\ county = "c2" THEN <<"z2", "z3">>
    ELSE <<>>

Range(s) == {s[i] : i \in DOMAIN s}

sorted(locations) == SelectSeq(LocOrder, LAMBDA x : x \in locations)

\* md5 of the JSON text of the sorted locations, cut to 12 hex digits: equal
\* for equal sorted lists, and taken to differ for different ones.
get_region_hash(locations) == sorted(locations)

-----------------------------------------------------------------------------
(* Region store: save_region_data *)

Tables == [meta |-> region_metadata, regions |-> rate_regions, mapping |-> region_mapping]

\* SELECT region_id FROM region_metadata WHERE naic = ? AND state = ? AND region_hash = ?
ExistingRegionNoLookup(meta, naic, state, region_hash) == {}

ExistingRegion(meta, naic, state, region_hash) ==
    {m.region_id : m \in {x \in meta : x.naic = naic /\ x.state = state
                                        /\ x.region_hash = region_hash}}

\* The rows save_region_data maps to a new region.
MappingRows(state, naic, region_set, mapping_type, region_id) ==
    IF mapping_type = "zip5"
    THEN {[zip_code |-> z, county |-> "", region_id |-> region_id, naic |-> naic,
           mapping_type |-> mapping_type] : z \in region_set}
    ELSE {[zip_code |-> "", county |-> c, region_id |-> region_id, naic |-> naic,
           mapping_type |-> mapping_type] : c \in region_set}
         \cup
         UNION {{[zip_code |-> z, county |-> c, region_id |-> region_id, naic |-> naic,
                  mapping_type |-> mapping_type] : z \in Range(lookup_zip_by_county(state, c))}
                : c \in region_set}

\* INSERT OR REPLACE INTO region_mapping: a row with the same primary key goes.
InsertOrReplaceMapping(mapping, rows) ==
    {m \in mapping : ~\E r \in rows : r.zip_code = m.zip_code /\ r.county = m.county
                                       /\ r.naic = m.naic}
    \cup rows

\* self.conn.execute("ROLLBACK"): the tables as they were at BEGIN TRANSACTION.
RollbackKeepsWrites(snapshot, written) == written

Rollback(snapshot, written) == snapshot

\* The loop of save_region_data over regions[i..].  n counts the write statements
\* executed so far; the statement numbered fail_at raises (0: none does).
RECURSIVE SaveRegionLoop(_, _, _, _, _, _, _, _, _, _, _)
SaveRegionLoop(db, state, naic, regions, mapping_type, i, region_ids, hashes, uuid, n, fail_at) ==
    IF i > Len(regions)
    THEN \* COMMIT
         IF n + 1 = fail_at
         THEN [ok |-> FALSE, db |-> db, region_ids |-> region_ids, uuid |-> uuid]
         ELSE [ok |-> TRUE, db |-> db, region_ids |-> region_ids, uuid |-> uuid]
    ELSE
      LET region_set == regions[i]
          region_hash == get_region_hash(region_set)
          existing == ExistingRegion(db.meta, naic, state, region_hash)
      IN
      IF region_hash \in hashes
      THEN SaveRegionLoop(db, state, naic, regions, mapping_type, i + 1,
                          region_ids, hashes, uuid, n, fail_at)
      ELSE IF existing # {}
      THEN SaveRegionLoop(db, state, naic, regions, mapping_type, i + 1,
                          Append(region_ids, CHOOSE r \in existing : TRUE),
                          hashes \cup {region_hash}, uuid, n, fail_at)
      ELSE
        LET region_id == uuid
            db1 == [db EXCEPT !.meta = @ \cup
                      {[region_id |-> region_id, naic |-> naic, state |-> state,
                        mapping_type |-> mapping_type, region_hash |-> region_hash]}]
            db2 == [db1 EXCEPT !.regions = @ \cup
                      {[region_id |-> region_id, naic |-> naic, state |-> state,
                        mapping_type |-> mapping_type, region_data |-> sorted(region_set)]}]
            db3 == [db2 EXCEPT !.mapping = InsertOrReplaceMapping(@,
                      MappingRows(state, naic, region_set, mapping_type, region_id))]
        IN
        IF n + 1 = fail_at
        THEN [ok |-> FALSE, db |-> db, region_ids |-> region_ids, uuid |-> uuid + 1]
        ELSE IF n + 2 = fail_at
        THEN [ok |-> FALSE, db |-> db1, region_ids |-> region_ids, uuid |-> uuid + 1]
        ELSE IF n + 3 = fail_at
        THEN [ok |-> FALSE, db |-> db2, region_ids |-> region_ids, uuid |-> uuid + 1]
        ELSE SaveRegionLoop(db3, state, naic, regions, mapping_type, i + 1,
                            Append(region_ids, region_id),
                            hashes \cup {region_hash}, uuid + 1, n + 3, fail_at)

\* A save that leaves out the INSERT INTO rate_regions.
save_region_data_no_region_row(db, state, naic, regions, mapping_type, uuid, fail_at) ==
    LET r == SaveRegionLoop(db, state, naic, regions, mapping_type, 1, <<>>, {}, uuid, 0, fail_at)
    IN IF r.ok
       THEN [db |-> [r.db EXCEPT !.regions = db.regions], region_ids |-> r.region_ids,
             uuid |-> r.uuid, failed |-> FALSE]
       ELSE [db |-> db, region_ids |-> <<>>, uuid |-> r.uuid, failed |-> TRUE]

\* A save that returns the region ids although its transaction was rolled back.
save_region_data_ids_after_rollback(db, state, naic, regions, mapping_type, uuid, fail_at) ==
    LET r == SaveRegionLoop(db, state, naic, regions, mapping_type, 1, <<>>, {}, uuid, 0, 0)
    IN [db |-> IF fail_at = 0 THEN r.db ELSE db, region_ids |-> r.region_ids,
        uuid |-> r.uuid, failed |-> fail_at # 0]

\* save_region_data(state, naic, regions, mapping_type): the tables afterwards
\* and the list of region ids it returns ([] after a failure).
save_region_data(db, state, naic, regions, mapping_type, uuid, fail_at) ==
    LET r == SaveRegionLoop(db, state, naic, regions, mapping_type, 1, <<>>, {}, uuid, 0, fail_at)
    IN IF r.ok
       THEN [db |-> r.db, region_ids |-> r.region_ids, uuid |-> r.uuid, failed |-> FALSE]
       ELSE [db |-> Rollback(db, r.db), region_ids |-> <<>>, uuid |-> r.uuid, failed |-> TRUE]

-----------------------------------------------------------------------------
(* Effective dates.  The column is TEXT: a date string is its calendar day and *)
(* an optional time-of-day suffix ("2025-06-01" or "2025-06-01T00:00:00").     *)

NoTime == ""
Midnight == "T00:00:00"

DateStr(day, time) == [day |-> day, time |-> time]

\* The API record carried no effective_date (Python None, SQL NULL).
NULL == [day |-> 0, time |-> "None"]

\* CAST(x AS DATE): the calendar day of the string.
CastDate(s) == s.day

\* String comparison of two date strings: by day (fixed-width ISO text), a
\* string that is a prefix of the other being the smaller.
StrLess(a, b) == a.day < b.day \/ (a.day = b.day /\ a.time = NoTime /\ b.time # NoTime)

\* SQL MAX over a non-empty set of TEXT values.
MaxStr(S) == CHOOSE m \in S : \A x \in S : x = m \/ StrLess(x, m)

-----------------------------------------------------------------------------
(* Temporal rate cache: save_rates and the lookups *)

\* PRIMARY KEY (region_id, gender, tobacco, age, naic, plan, effective_date, state)
PK(r) == <<r.region_id, r.gender, r.tobacco, r.age, r.naic, r.plan, r.effective_date, r.state>>

RateDiffersRateOnly(old, new) == old.rate # new.rate

\* if old_rate != new_rate or old_discount != new_discount
RateDiffers(old, new) == old.rate # new.rate \/ old.discount_rate # new.discount_rate

\* The line appended to the correction log for a stored row and a new record.
CorrectionEntry(old, new) ==
    [key |-> PK(old), old_rate |-> old.rate, new_rate |-> new.rate,
     old_discount |-> old.discount_rate, new_discount |-> new.discount_rate]

RECURSIVE BatchCorrections(_, _, _)
BatchCorrections(store, batch, i) ==
    IF i > Len(batch) THEN <<>>
    ELSE LET hit == {s \in store : PK(s) = PK(batch[i]) /\ RateDiffers(s, batch[i])}
         IN (IF hit = {} THEN <<>> ELSE <<CorrectionEntry(CHOOSE s \in hit : TRUE, batch[i])>>)
            \o BatchCorrections(store, batch, i + 1)

\* A rollback that leaves the rows written by the batch.
RollbackBatchKeepsWritten(snapshot, written) == written

\* ROLLBACK of one rate batch.
RollbackBatch(snapshot, written) == snapshot

\* One batch of save_rates: the corrections it logs, and the INSERT ... WHERE NOT
\* EXISTS, which raises when two of the rows to insert share a primary key or
\* one has a NULL key column; the batch is then rolled back.
ProcessBatch(store, batch) ==
    LET fresh == {i \in DOMAIN batch : ~\E s \in store : PK(s) = PK(batch[i])}
        raises == \/ \E i, j \in fresh : i # j /\ PK(batch[i]) = PK(batch[j])
                  \/ \E i \in fresh : batch[i].effective_date = NULL
        written == store \cup {batch[i] : i \in fresh}
    IN [log |-> BatchCorrections(store, batch, 1),
        store |-> IF raises THEN RollbackBatch(store, written) ELSE written,
        error |-> raises]

Min(a, b) == IF a < b THEN a ELSE b

RECURSIVE SaveRatesLoop(_, _, _, _, _)
SaveRatesLoop(store, rows, i, log, error_count) ==
    IF i > Len(rows) THEN [store |-> store, log |-> log]
    ELSE LET b == ProcessBatch(store, SubSeq(rows, i, Min(i + BatchSize - 1, Len(rows))))
         IN IF b.error /\ error_count + 1 > MaxBatchErrors
            THEN [store |-> b.store, log |-> log \o b.log]
            ELSE SaveRatesLoop(b.store, rows, i + BatchSize, log \o b.log,
                               IF b.error THEN error_count + 1 ELSE error_count)

\* save_rates(rates): rate_store afterwards and the correction log it wrote.
save_rates(store, rates) ==
    IF rates = <<>> THEN [store |-> store, log |-> <<>>]
    ELSE SaveRatesLoop(store, rates, 1, <<>>, 0)

-----------------------------------------------------------------------------
(* The state after the builder is constructed on an empty database *)

\* The units of work of a build: (state, carrier, requested effective date).
Units ==
    {[state |-> "s1", naic |-> "n1", effective_date |-> DateStr(1, NoTime)],
     [state |-> "s1", naic |-> "n1", effective_date |-> DateStr(2, NoTime)]}

\* A unit that process_carrier_state is not working on: no locals.
Finished(pc) == [pc |-> pc, regions_to_process |-> <<>>, mapping_type |-> ""]

\* The carriers the quote source knows: the two of the build, and the two the
\* discovery code has workarounds for (82538 in WY, 73288 in LA).
SourceCarriers == NAICS \cup {"82538", "73288"}

\* A response of the source to a discovery probe: no quote, or one quote with
\* its location_base.
Group(zip5, county) == <<[zip5 |-> zip5, county |-> county]>>

\* The source as the build finds it.  Carrier n1 rates by ZIP code and offers
\* nothing at z3; carrier n2 rates by county; 82538 rates by ZIP code and
\* 73288 by county.
InitialSource ==
    [naic \in SourceCarriers |->
        [zip5 \in ZIPS |->
            IF naic = "n1"
            THEN IF zip5 \in {"z1", "z2"} THEN Group({"z1", "z2"}, {}) ELSE <<>>
            ELSE IF naic = "82538" THEN Group(ZIPS, {})
            ELSE IF zip5 \in {"z1", "z2"} THEN Group({}, {"c1"})
            ELSE Group({}, {"c2"})]]

\* The tasks of a build that send requests to the source.
Tasks == {"t1", "t2", "t3", "t4"}

Init ==
    /\ rate_regions = {}
    /\ region_metadata = {}
    /\ region_mapping = {}
    /\ rate_store = {}
    /\ processed_data = {}
    /\ correction_log = <<>>
    /\ next_uuid = 1
    /\ unit = [u \in Units |-> Finished("Pending")]
    /\ obs = [op |-> "init"]
    /\ source = InitialSource
    /\ spot = [pc |-> "idle"]
    /\ key_rate_store = {}
    /\ permits = [global |-> MAX_CONNECTIONS, demographic |-> DemographicPermits]
    /\ task = [t \in Tasks |-> [pc |-> "idle", kind |-> "none", holds_global |-> FALSE]]
    /\ request = [pc |-> "idle"]

-----------------------------------------------------------------------------
(* Region store in isolation: any sequence of region saves *)

SeqsUpTo(S, n) == UNION {[1..k -> S] : k \in 1..n}

\* The location sets a discovery run can hand to save_region_data.
RegionSets(mapping_type) ==
    IF mapping_type = "zip5" THEN (SUBSET {"z1", "z2"}) \ {{}}
    ELSE (SUBSET COUNTIES) \ {{}}

\* DuckDBMedicareBuilder.save_region_data as one step.
SaveRegionData(state, naic, regions, mapping_type, fail_at) ==
    /\ next_uuid + Len(regions) - 1 <= MaxRegionIds
    /\ LET r == save_region_data(Tables, state, naic, regions, mapping_type, next_uuid, fail_at)
       IN /\ region_metadata' = r.db.meta
          /\ rate_regions' = r.db.regions
          /\ region_mapping' = r.db.mapping
          /\ next_uuid' = r.uuid
          /\ obs' = [op |-> "save_region_data", state |-> state, naic |-> naic,
                     regions |-> regions, mapping_type |-> mapping_type,
                     fail_at |-> fail_at, failed |-> r.failed, result |-> r.region_ids,
                     uuid_before |-> next_uuid]
    /\ UNCHANGED <<rate_store, processed_data, correction_log, unit>>
    /\ UNCHANGED other_vars

RegionSave ==
    \E state \in STATES, naic \in NAICS, mapping_type \in {"zip5", "county"} :
      \E regions \in SeqsUpTo(RegionSets(mapping_type), MaxRegionsPerSave) :
        \E fail_at \in 0..(3 * Len(regions) + 1) :
          SaveRegionData(state, naic, regions, mapping_type, fail_at)

NextRegions == RegionSave

\* Step 1 of fetch_quotes_from_db: the regions region_mapping gives a ZIP code,
\* joined with region_metadata on the state, for one carrier.
region_query(zip_code, state, naic) ==
    {rm.region_id : rm \in {x \in region_mapping :
        /\ x.zip_code = zip_code
        /\ x.naic = naic
        /\ \E meta \in region_metadata : meta.region_id = x.region_id /\ meta.state = state}}

\* The regions get_rate_by_county joins a county to, for one carrier.
county_query(county, naic) ==
    {rm.region_id : rm \in {x \in region_mapping : x.county = county /\ x.naic = naic}}

RegionDedupInv ==
    \A m1, m2 \in region_metadata :
        (m1.naic = m2.naic /\ m1.state = m2.state /\ m1.region_hash = m2.region_hash)
        => m1.region_id = m2.region_id

\* C4: no two region identifiers ever share (carrier, jurisdiction, content
\* hash); a save of a location set whose hash is already stored for the carrier
\* and jurisdiction returns the stored identifier and adds no region for it.
C4_RegionDedup ==
    [][/\ RegionDedupInv'
       /\ (obs'.op = "save_region_data" /\ ~obs'.failed) =>
            \A i \in DOMAIN obs'.regions :
              \A m \in region_metadata :
                (/\ m.naic = obs'.naic
                 /\ m.state = obs'.state
                 /\ m.region_hash = get_region_hash(obs'.regions[i]))
                => /\ m.region_id \in Range(obs'.result)
                   /\ ~\E x \in region_metadata' \ region_metadata :
                         /\ x.naic = m.naic
                         /\ x.state = m.state
                         /\ x.region_hash = m.region_hash]_vars

\* A save that returned an identifier handed out by an earlier save.
C4_Witness ==
    /\ obs.op = "save_region_data"
    /\ ~obs.failed
    /\ \E i \in DOMAIN obs.result : obs.result[i] < obs.uuid_before

\* C6: a lookup of the mapping by location (ZIP code or county) and carrier
\* never yields two different regions.
C6_OneRegionPerLocation ==
    \A naic \in NAICS :
        /\ \A zip_code \in ZIPS, state \in STATES :
              Cardinality(region_query(zip_code, state, naic)) <= 1
        /\ \A county \in COUNTIES : Cardinality(county_query(county, naic)) <= 1

\* C7: a save whose write fails leaves the three region tables as they were and
\* returns no identifier; a save without failure has, for every region of the
\* run, its metadata row, its region row and a mapping row for each of its keys.
C7_SaveAtomic ==
    [][obs'.op = "save_region_data" =>
        IF obs'.failed
        THEN /\ region_metadata' = region_metadata
             /\ rate_regions' = rate_regions
             /\ region_mapping' = region_mapping
             /\ obs'.result = <<>>
        ELSE \A i \in DOMAIN obs'.regions :
               \E m \in region_metadata' :
                 /\ m.naic = obs'.naic
                 /\ m.state = obs'.state
                 /\ m.region_hash = get_region_hash(obs'.regions[i])
                 /\ m.region_id \in Range(obs'.result)
                 /\ \E rr \in rate_regions' :
                       rr.region_id = m.region_id /\ rr.region_data = sorted(obs'.regions[i])
                 /\ m \notin region_metadata =>
                       \A row \in MappingRows(obs'.state, obs'.naic, obs'.regions[i],
                                              obs'.mapping_type, m.region_id) :
                         \E x \in region_mapping' :
                           /\ x.zip_code = row.zip_code
                           /\ x.county = row.county
                           /\ x.naic = row.naic
                           /\ x.region_id \in Range(obs'.result)]_vars

\* A save that failed after a whole region had been written.
C7_Witness ==
    /\ obs.op = "save_region_data"
    /\ obs.failed
    /\ obs.fail_at >= 4

SpecRegions == Init /\ [][NextRegions]_vars

\* The location a mapping row stands for: its ZIP code in a mapping by ZIP
\* code, its county in a mapping by county.
LocationOf(m) == IF m.mapping_type = "zip5" THEN m.zip_code ELSE m.county

\* Every mapped location is a member of the location set of the region it is
\* mapped to.
MappedIsMember ==
    \A m \in region_mapping :
        \E rr \in rate_regions :
            /\ rr.region_id = m.region_id
            /\ rr.naic = m.naic
            /\ LocationOf(m) \in Range(rr.region_data)

\* Every member of the location set of a stored region is mapped to that
\* region.
MemberIsMapped ==
    \A rr \in rate_regions :
        \A l \in Range(rr.region_data) :
            \E m \in region_mapping :
                /\ m.region_id = rr.region_id
                /\ m.naic = rr.naic
                /\ LocationOf(m) = l

\* C35: after any sequence of region saves the location mapping and the
\* stored regions agree: a mapped location is a member of its region, and a
\* member of a stored region is mapped to that region.
C35_MappingAgreesWithRegions == MappedIsMember /\ MemberIsMapped

\* As long as the stored regions of each carrier share no location, the two
\* agree.
DisjointRegionsAgree ==
    (\A a, b \in rate_regions :
        (a # b /\ a.naic = b.naic) => Range(a.region_data) \cap Range(b.region_data) = {})
    => C35_MappingAgreesWithRegions

\* A location that a later save mapped to a new region while the region
\* stored first still lists it.
RegionLostMember ==
    /\ obs.op = "save_region_data"
    /\ ~obs.failed
    /\ MappedIsMember
    /\ ~MemberIsMapped

-----------------------------------------------------------------------------
(* Rate cache writes in isolation: one region, then any sequence of save_rates *)

Row(region_id, age, naic, rate, discount_rate, effective_date) ==
    [region_id |-> region_id, gender |-> "M", tobacco |-> 0, age |-> age, naic |-> naic,
     plan |-> "G", rate |-> rate, discount_rate |-> discount_rate,
     effective_date |-> effective_date, state |-> "s1"]

\* DuckDBMedicareBuilder.save_rates as one step.
SaveRates(rates) ==
    /\ \A i \in DOMAIN rates : \E m \in region_metadata : m.region_id = rates[i].region_id
    /\ LET r == save_rates(rate_store, rates)
       IN /\ rate_store' = r.store
          /\ correction_log' = r.log
          /\ obs' = [op |-> "save_rates", rates |-> rates]
    /\ UNCHANGED <<rate_regions, region_metadata, region_mapping, processed_data,
                   next_uuid, unit>>
    /\ UNCHANGED other_vars

RatesSetup ==
    /\ region_metadata = {}
    /\ SaveRegionData("s1", "n1", <<{"z1", "z2"}>>, "zip5", 0)

\* Records for one key (age 65) in cents: three (rate, discounted rate) pairs, of
\* which two differ in the rate only and two in the discounted rate only.
CorrectionRows ==
    {Row(1, 65, "n1", v[1], v[2], DateStr(1, NoTime)) :
        v \in {<<10000, 9000>>, <<11000, 9000>>, <<10000, 9500>>}}

\* One record for each of two keys (ages 65 and 66).
KeyRows == {Row(1, age, "n1", 10000, 9000, DateStr(1, NoTime)) : age \in {65, 66}}

\* The lists a caller hands to save_rates: rewrites of one key, or several keys.
RateLists == SeqsUpTo(CorrectionRows, MaxRates) \cup SeqsUpTo(KeyRows, MaxRates)

RatesSave == \E rates \in RateLists : SaveRates(rates)

NextRates == RatesSetup \/ RatesSave

SpecRates == Init /\ [][NextRates]_vars

\* C8: a write for a stored primary key leaves the stored row as it is, and
\* the log of the call holds one correction per write for that key whose rate
\* or discounted rate differs from the stored one, none for an equal write.
C8_ExistingKeyLogged ==
    [][obs'.op = "save_rates" =>
        \A s \in rate_store :
          /\ s \in rate_store'
          /\ ~\E x \in rate_store' : x # s /\ PK(x) = PK(s)
          /\ Cardinality({j \in DOMAIN correction_log' : correction_log'[j].key = PK(s)})
             = Cardinality({i \in DOMAIN obs'.rates :
                   /\ PK(obs'.rates[i]) = PK(s)
                   /\ (obs'.rates[i].rate # s.rate
                       \/ obs'.rates[i].discount_rate # s.discount_rate)})]_vars

\* A call that logged a correction and also wrote a stored row unchanged.
C8_Witness ==
    /\ obs.op = "save_rates"
    /\ correction_log # <<>>
    /\ \E i \in DOMAIN obs.rates :
          /\ obs.rates[i] \in rate_store
          /\ \E j \in DOMAIN correction_log : correction_log[j].key = PK(obs.rates[i])

\* C9: a second save_rates call with the same rate records leaves rate_store
\* as the first call left it.
C9_SaveRatesIdempotent ==
    [][(obs.op = "save_rates" /\ obs'.op = "save_rates" /\ obs'.rates = obs.rates)
        => rate_store' = rate_store]_vars

\* The rows the rate cache holds for the primary key of a record.
RowsOfKey(record) == {s \in rate_store : PK(s) = PK(record)}

\* C34: after save_rates(rates) every primary key that occurs in rates has
\* exactly one row in the rate cache, also when rates holds several records
\* of one key.
C34_OneRowPerKey ==
    obs.op = "save_rates" =>
        \A i \in DOMAIN obs.rates : Cardinality(RowsOfKey(obs.rates[i])) = 1

\* The part of C34 that holds: no key ever has two rows, and a list without a
\* repeated key is stored whole.
DistinctKeysStored ==
    obs.op = "save_rates" =>
        /\ \A i \in DOMAIN obs.rates : Cardinality(RowsOfKey(obs.rates[i])) <= 1
        /\ (\A i, j \in DOMAIN obs.rates : i # j => PK(obs.rates[i]) # PK(obs.rates[j]))
           => \A i \in DOMAIN obs.rates : Cardinality(RowsOfKey(obs.rates[i])) = 1

\* A call with a repeated key after which the key has no row.
RepeatedKeyLost ==
    /\ obs.op = "save_rates"
    /\ \E i, j \in DOMAIN obs.rates :
          /\ i # j
          /\ PK(obs.rates[i]) = PK(obs.rates[j])
          /\ RowsOfKey(obs.rates[i]) = {}

-----------------------------------------------------------------------------
(* Rate batches: one region, then any sequence of save_rates over lists in
   which a batch can fail *)

\* The lists handed to save_rates: records of two keys, a second value for one
\* of them, and a record without effective date, whose insert raises.
BatchRows ==
    KeyRows \cup {Row(1, 65, "n1", 11000, 9000, DateStr(1, NoTime)),
                  Row(1, 67, "n1", 10000, 9000, NULL)}

BatchSave == \E rates \in SeqsUpTo(BatchRows, MaxRates) : SaveRates(rates)

NextBatch == RatesSetup \/ BatchSave

SpecBatch == Init /\ [][NextBatch]_vars

\* For each batch of save_rates(rows) run on store, whether it raised and was
\* rolled back; the batches after the abort of the loop are not run.
RECURSIVE BatchErrors(_, _, _, _)
BatchErrors(store, rows, i, error_count) ==
    IF i > Len(rows) THEN <<>>
    ELSE LET b == ProcessBatch(store, SubSeq(rows, i, Min(i + BatchSize - 1, Len(rows))))
         IN <<b.error>> \o
            (IF b.error /\ error_count + 1 > MaxBatchErrors THEN <<>>
             ELSE BatchErrors(b.store, rows, i + BatchSize,
                              IF b.error THEN error_count + 1 ELSE error_count))

\* The records of the k-th batch of rows.
BatchOf(rows, k) ==
    {rows[i] : i \in (BatchSize * (k - 1) + 1)..Min(BatchSize * k, Len(rows))}

\* C26: each batch of save_rates is one transaction.  A batch in which a
\* statement failed adds no row to the cache; a batch without a failure has
\* every one of its keys in the cache, also when a later batch fails; the rows
\* the cache held stay as they were, and no key has two rows.
C26_BatchAtomic ==
    [][obs'.op = "save_rates" =>
        LET errors == BatchErrors(rate_store, obs'.rates, 1, 0)
            committed == UNION {BatchOf(obs'.rates, k) : k \in {j \in DOMAIN errors : ~errors[j]}}
        IN /\ rate_store \subseteq rate_store'
           /\ \A r \in rate_store', x \in rate_store' : PK(r) = PK(x) => r = x
           /\ \A k \in DOMAIN errors :
                 IF errors[k]
                 THEN \A r \in BatchOf(obs'.rates, k) :
                         r \in rate_store' => (r \in rate_store \/ r \in committed)
                 ELSE \A r \in BatchOf(obs'.rates, k) :
                         \E x \in rate_store' : PK(x) = PK(r)
           /\ rate_store' \ rate_store \subseteq committed]_vars

\* A save of two batches whose first batch went through and whose second
\* failed: the keys of the first are in the cache, the record of the second
\* that could be stored is not.
C26_Witness ==
    /\ obs.op = "save_rates"
    /\ Len(obs.rates) = BatchSize + 1
    /\ obs.rates[BatchSize + 1].effective_date = NULL
    /\ \A i \in 1..BatchSize : obs.rates[i] \in rate_store
    /\ obs.rates[BatchSize + 1] \notin rate_store

-----------------------------------------------------------------------------
(* Lookups of the rate cache: one county region, rows written one at a time, *)
(* and the three lookups                                                     *)

\* DuckDBRateStore.get_most_recent_effective_date_query run with the parameters
\* fetch_quotes_from_db binds: the rows of the key whose effective_date is the
\* MAX (over the TEXT column) of those whose date is not after the requested one.
MostRecentExactMatch(store, region_id, gender, tobacco, age, naic, plan, state, effective_date) ==
    {r \in store : /\ r.region_id = region_id /\ r.gender = gender /\ r.tobacco = tobacco
                   /\ r.age = age /\ r.naic = naic /\ r.plan = plan /\ r.state = state
                   /\ r.effective_date = effective_date}

get_most_recent_effective_date_query(store, region_id, gender, tobacco, age, naic, plan, state, effective_date) ==
    LET of_key == {r \in store : /\ r.region_id = region_id /\ r.gender = gender
                                 /\ r.tobacco = tobacco /\ r.age = age /\ r.naic = naic
                                 /\ r.plan = plan /\ r.state = state}
        not_after == {r.effective_date : r \in {x \in of_key :
                          CastDate(x.effective_date) <= CastDate(effective_date)}}
    IN IF not_after = {} THEN {}
       ELSE {r \in of_key : r.effective_date = MaxStr(not_after)}

\* fetch_quotes_from_db: the rate rows it turns into quotes, for every region the
\* mapping gives the ZIP code (naic is the carrier filter, {} for none).
fetch_quotes_from_db(state, zip_code, age, tobacco, gender, plan, naic, effective_date) ==
    LET tobacco_int == IF tobacco THEN 1 ELSE 0
        region_results == {<<rm.region_id, rm.naic>> : rm \in {x \in region_mapping :
            /\ x.zip_code = zip_code
            /\ \E meta \in region_metadata : meta.region_id = x.region_id /\ meta.state = state
            /\ (naic # {} => x.naic \in naic)}}
    IN UNION {get_most_recent_effective_date_query(rate_store, region[1], gender, tobacco_int,
                  age, region[2], plan, state, effective_date) : region \in region_results}

\* get_rate_by_zip: the rate rows behind the records it returns.
get_rate_by_zip(zip_code, gender, tobacco, age, effective_date) ==
    {r \in rate_store :
        /\ \E m \in region_mapping :
              r.region_id = m.region_id /\ r.naic = m.naic /\ m.zip_code = zip_code
        /\ r.gender = gender /\ r.tobacco = tobacco /\ r.age = age
        /\ r.effective_date = effective_date}

\* get_rate_by_county: the rate rows behind the records it returns.
get_rate_by_county(state, county, gender, tobacco, age, effective_date) ==
    {r \in rate_store :
        /\ \E m \in region_mapping :
              r.region_id = m.region_id /\ r.naic = m.naic /\ m.county = county
        /\ r.state = state /\ r.gender = gender /\ r.tobacco = tobacco /\ r.age = age
        /\ r.effective_date = effective_date}

\* The effective-date strings of the stored rows and of the requests.
LookupDates == {DateStr(d, t) : d \in 1..MaxDay, t \in {NoTime, Midnight}}

\* One record per effective-date string, its rate telling the day.
LookupRows == {Row(1, 65, "n1", 10000 + 100 * e.day, 9000 + 100 * e.day, e) : e \in LookupDates}

LookupSetup ==
    /\ region_metadata = {}
    /\ SaveRegionData("s1", "n1", <<{"c1"}>>, "county", 0)

LookupSave ==
    \E r \in LookupRows :
        /\ Cardinality(rate_store) < MaxStoreRows
        /\ SaveRates(<<r>>)

FetchQuotes(zip_code, age, effective_date) ==
    /\ obs' = [op |-> "fetch_quotes_from_db", zip_code |-> zip_code, age |-> age,
               effective_date |-> effective_date,
               result |-> fetch_quotes_from_db("s1", zip_code, <<age>>[1], FALSE, "M", "G",
                                               {"n1"}, effective_date)]
    /\ UNCHANGED <<rate_regions, region_metadata, region_mapping, rate_store,
                   processed_data, correction_log, next_uuid, unit>>
    /\ UNCHANGED other_vars

GetRateByZip(zip_code, age, effective_date) ==
    /\ obs' = [op |-> "get_rate_by_zip", zip_code |-> zip_code, age |-> age,
               effective_date |-> effective_date,
               result |-> get_rate_by_zip(zip_code, "M", 0, age, effective_date)]
    /\ UNCHANGED <<rate_regions, region_metadata, region_mapping, rate_store,
                   processed_data, correction_log, next_uuid, unit>>
    /\ UNCHANGED other_vars

GetRateByCounty(county, age, effective_date) ==
    /\ obs' = [op |-> "get_rate_by_county", county |-> county, age |-> age,
               effective_date |-> effective_date,
               result |-> get_rate_by_county("s1", county, "M", 0, age, effective_date)]
    /\ UNCHANGED <<rate_regions, region_metadata, region_mapping, rate_store,
                   processed_data, correction_log, next_uuid, unit>>
    /\ UNCHANGED other_vars

LookupFetch == \E zip_code \in {"z1", "z3"}, e \in LookupDates : FetchQuotes(zip_code, 65, e)

LookupByZip == \E e \in LookupDates : GetRateByZip("z1", 65, e)

LookupByCounty == \E e \in LookupDates : GetRateByCounty("c1", 65, e)

NextLookup == LookupSetup \/ LookupSave \/ LookupFetch \/ LookupByZip \/ LookupByCounty

SpecLookup == Init /\ [][NextLookup]_vars

\* The stored rows of one key (region, gender, tobacco, age, carrier, plan).
StoredForKey(region_id, gender, tobacco, age, naic, plan) ==
    {r \in rate_store : /\ r.region_id = region_id /\ r.gender = gender /\ r.tobacco = tobacco
                        /\ r.age = age /\ r.naic = naic /\ r.plan = plan}

\* C1: for every key and every requested date, the lookup that answers quotes
\* returns one row of the key, dated on or before the requested date and no
\* earlier than any other such row (a row dated on the requested date counts);
\* it returns nothing when every stored date of the key is later; and it never
\* returns a row dated after the requested date.
C1_MostRecentNotAfter ==
    obs.op = "fetch_quotes_from_db" =>
        /\ \A r \in obs.result : CastDate(r.effective_date) <= CastDate(obs.effective_date)
        /\ \A region_id \in region_query(obs.zip_code, "s1", "n1") :
             LET stored == StoredForKey(region_id, "M", 0, obs.age, "n1", "G")
                 not_after == {r \in stored :
                                 CastDate(r.effective_date) <= CastDate(obs.effective_date)}
                 returned == {r \in obs.result : r.region_id = region_id}
             IN IF not_after = {}
                THEN returned = {}
                ELSE /\ Cardinality(returned) = 1
                     /\ returned \subseteq not_after
                     /\ \A r \in returned : \A x \in not_after :
                           CastDate(x.effective_date) <= CastDate(r.effective_date)

\* A lookup that returned a row dated before the requested date while a later
\* row of the key is stored.
C1_Witness ==
    /\ obs.op = "fetch_quotes_from_db"
    /\ \E r \in obs.result :
          /\ CastDate(r.effective_date) < CastDate(obs.effective_date)
          /\ \E x \in rate_store :
                PK(x) # PK(r) /\ CastDate(x.effective_date) > CastDate(obs.effective_date)

\* C2: when the latest stored row of a key is dated before the requested date
\* (so none is dated on it), get_rate_by_zip and get_rate_by_county return that
\* latest row.
C2_BuilderLookupsNotExactMatch ==
    obs.op \in {"get_rate_by_zip", "get_rate_by_county"} =>
        \A region_id \in (IF obs.op = "get_rate_by_zip"
                          THEN {m.region_id : m \in {x \in region_mapping :
                                    x.zip_code = obs.zip_code /\ x.naic = "n1"}}
                          ELSE county_query(obs.county, "n1")) :
            LET stored == StoredForKey(region_id, "M", 0, obs.age, "n1", "G")
            IN (/\ stored # {}
                /\ \A x \in stored : CastDate(x.effective_date) < CastDate(obs.effective_date))
               => \E r \in obs.result :
                     /\ r \in stored
                     /\ \A x \in stored : CastDate(x.effective_date) <= CastDate(r.effective_date)

-----------------------------------------------------------------------------
(* Region discovery: calc_naic_map_combined2 and the loops it hands over to *)

\* AsyncCSGRequest.fetch_quote for a discovery probe: the location_base of each
\* quote the source returns for the carrier at the ZIP code.
fetch_quote(naic, zip5) == source[naic][zip5]

\* random.shuffle(state_zips): every order of the elements of S.
Orders(S) ==
    {s \in [1..Cardinality(S) -> S] : \A i, j \in 1..Cardinality(S) : i # j => s[i] # s[j]}

\* next((i for i, e in enumerate(lookup_list) if e == x), None); 0 for None.
existing_index(lookup_list, x) ==
    IF \E i \in DOMAIN lookup_list : lookup_list[i] = x
    THEN CHOOSE i \in DOMAIN lookup_list :
            lookup_list[i] = x /\ \A j \in 1..(i - 1) : lookup_list[j] # x
    ELSE 0

\* What a discovery routine hands back, with what it marked resolved
\* (processed_zips or processed_counties) and the requests it sent.
Found(lookup_list, processed, requests) ==
    [lookup_list |-> lookup_list, processed |-> processed, requests |-> requests]

\* The loop of calc_naic_map_zip over state_zips[i..].  A probed ZIP code is
\* added to the set the source returned for it, so no set is empty and the
\* zero_count exit is never taken.
RECURSIVE ZipLoop(_, _, _, _, _, _)
ZipLoop(naic, state_zips, i, lookup_list, processed_zips, requests) ==
    IF i > Len(state_zips) THEN Found(lookup_list, processed_zips, requests)
    ELSE
      LET z == state_zips[i]
          rr == fetch_quote(naic, z)
      IN
      IF z \in processed_zips
      THEN ZipLoop(naic, state_zips, i + 1, lookup_list, processed_zips, requests)
      ELSE IF rr = <<>>
      THEN ZipLoop(naic, state_zips, i + 1, lookup_list, processed_zips, requests + 1)
      ELSE
        LET at == existing_index(lookup_list, rr[1].zip5)
            zbase == rr[1].zip5 \cup {z}
        IN ZipLoop(naic, state_zips, i + 1,
                   IF at # 0 THEN [lookup_list EXCEPT ![at] = zbase]
                   ELSE Append(lookup_list, zbase),
                   processed_zips \cup zbase, requests + 1)

\* calc_naic_map_zip(state, naic, first_result) with state_zips as shuffled.
calc_naic_map_zip(state, naic, first_result, state_zips) ==
    IF state = "WY" /\ naic = "82538" THEN Found(<<>>, {}, 0)
    ELSE IF first_result = <<>> THEN Found(<<>>, {}, 0)
    ELSE ZipLoop(naic, state_zips, 1, <<first_result[1].zip5>>, first_result[1].zip5, 0)

\* sc_dict of calc_naic_map_county: the ZIP codes that lie in one county only.
sc_dict(county) ==
    IF county = "c1" THEN <<"z1">> ELSE IF county = "c2" THEN <<"z3">> ELSE <<>>

\* The carriers and the fixed group of the workaround for Humana in LA (one
\* group of parishes in the code, here the county c1).
HumanaLA == {"73288", "60984", "60052"}
LA_group1 == {"c1"}

\* The loop of calc_humana_workaround over the counties.  process_st leaves
\* the county names of the model as they are.
RECURSIVE HumanaLoop(_, _, _, _, _, _, _)
HumanaLoop(naic, p_state_counties, i, list_of_groups, group_extra, processed_counties, requests) ==
    IF i > Len(p_state_counties)
    THEN Found(list_of_groups \o <<group_extra>>, processed_counties, requests)
    ELSE
      LET county == p_state_counties[i]
          rr == IF sc_dict(county) = <<>> THEN <<>> ELSE fetch_quote(naic, sc_dict(county)[1])
          sent == IF sc_dict(county) = <<>> THEN 0 ELSE 1
      IN
      IF county \in processed_counties
      THEN HumanaLoop(naic, p_state_counties, i + 1, list_of_groups, group_extra,
                      processed_counties, requests)
      ELSE IF rr = <<>>
      THEN HumanaLoop(naic, p_state_counties, i + 1, list_of_groups, group_extra,
                      processed_counties, requests + sent)
      ELSE HumanaLoop(naic, p_state_counties, i + 1, list_of_groups,
                      group_extra \cup {x \in rr[1].county :
                                          \A g \in DOMAIN list_of_groups : x \notin list_of_groups[g]},
                      processed_counties \cup rr[1].county, requests + sent)

\* calc_humana_workaround(state_counties, sc_dict, processed_counties, params,
\* zips, list_of_groups)
calc_humana_workaround(naic, state_counties, processed_counties, list_of_groups) ==
    HumanaLoop(naic, state_counties, 1, list_of_groups, {}, processed_counties, 0)

\* The loop of calc_naic_map_county over the counties of the state, in the
\* order the set yields them (no city entries in the states of the model).
RECURSIVE CountyLoop(_, _, _, _, _, _)
CountyLoop(naic, state_counties, i, lookup_list, processed_counties, requests) ==
    IF i > Len(state_counties) THEN Found(lookup_list, processed_counties, requests)
    ELSE
      LET county == state_counties[i]
          rr == IF sc_dict(county) = <<>> THEN <<>> ELSE fetch_quote(naic, sc_dict(county)[1])
          sent == IF sc_dict(county) = <<>> THEN 0 ELSE 1
      IN
      IF county \in processed_counties
      THEN CountyLoop(naic, state_counties, i + 1, lookup_list, processed_counties, requests)
      ELSE IF rr = <<>>
      THEN CountyLoop(naic, state_counties, i + 1, lookup_list, processed_counties,
                      requests + sent)
      ELSE
        LET at == existing_index(lookup_list, rr[1].county)
            county_base == rr[1].county \cup {county}
        IN CountyLoop(naic, state_counties, i + 1,
                      IF at # 0 THEN [lookup_list EXCEPT ![at] = county_base]
                      ELSE Append(lookup_list, county_base),
                      processed_counties \cup county_base, requests + sent)

\* calc_naic_map_county(state, naic, first_result) with the counties in order.
calc_naic_map_county(state, naic, first_result, state_counties) ==
    IF state = "WY" /\ naic = "82538" THEN Found(<<>>, {}, 0)
    ELSE IF first_result = <<>> THEN Found(<<>>, {}, 0)
    ELSE IF first_result[1].county = {} THEN Found(<<>>, {}, 0)
    ELSE IF state = "LA" /\ naic \in HumanaLA
    THEN calc_humana_workaround(naic, state_counties, first_result[1].county, <<LA_group1>>)
    ELSE CountyLoop(naic, state_counties, 1, <<first_result[1].county>>,
                    first_result[1].county, 0)

\* sorted(lookup_list0, key=len, reverse=True): stable, longest first.
RECURSIVE sorted_by_len(_)
sorted_by_len(lookup_list) ==
    IF lookup_list = <<>> THEN <<>>
    ELSE LET head == sorted_by_len(SubSeq(lookup_list, 1, Len(lookup_list) - 1))
             x == lookup_list[Len(lookup_list)]
             k == Cardinality({i \in DOMAIN head : Cardinality(head[i]) >= Cardinality(x)})
         IN SubSeq(head, 1, k) \o <<x>> \o SubSeq(head, k + 1, Len(head))

\* calc_naic_map_combined2 with the two tests of the first response in the
\* other order: the county list is looked at before the ZIP list.
calc_naic_map_combined2_county_first(state, naic, probe, state_zips, state_counties) ==
    LET first_result == fetch_quote(naic, probe)
        none == [found |-> Found(<<>>, {}, 0), mapping_type |-> "None"]
        out == IF first_result = <<>> THEN none
               ELSE IF first_result[1].county # {}
               THEN [found |-> calc_naic_map_county(state, naic, first_result, state_counties),
                     mapping_type |-> "county"]
               ELSE IF first_result[1].zip5 # {}
               THEN [found |-> calc_naic_map_zip(state, naic, first_result, state_zips),
                     mapping_type |-> "zip5"]
               ELSE none
    IN [regions |-> sorted_by_len(out.found.lookup_list), mapping_type |-> out.mapping_type,
        processed |-> out.found.processed, requests |-> 1 + out.found.requests]

\* calc_naic_map_combined2(state, naic): probe is the first ZIP code of its own
\* shuffle, state_zips the shuffle of calc_naic_map_zip, state_counties the
\* order of the county set.
calc_naic_map_combined2(state, naic, probe, state_zips, state_counties) ==
    LET first_result == fetch_quote(naic, probe)
        none == [found |-> Found(<<>>, {}, 0), mapping_type |-> "None"]
        out == IF first_result = <<>> THEN none
               ELSE IF first_result[1].zip5 # {}
               THEN [found |-> calc_naic_map_zip(state, naic, first_result, state_zips),
                     mapping_type |-> "zip5"]
               ELSE IF first_result[1].county # {}
               THEN [found |-> calc_naic_map_county(state, naic, first_result, state_counties),
                     mapping_type |-> "county"]
               ELSE none
    IN [regions |-> sorted_by_len(out.found.lookup_list), mapping_type |-> out.mapping_type,
        processed |-> out.found.processed, requests |-> 1 + out.found.requests]

\* DuckDBMedicareBuilder.get_rate_regions
get_rate_regions(state, naic, probe, state_zips, state_counties) ==
    LET found == calc_naic_map_combined2(state, naic, probe, state_zips, state_counties)
    IN IF Len(found.regions) = 0 THEN [regions |-> <<>>, mapping_type |-> ""]
       ELSE [regions |-> found.regions, mapping_type |-> found.mapping_type]

-----------------------------------------------------------------------------
(* Pricing: the quotes of the source and the rate records made of them *)

\* A quote record of the source, with the fields the builder reads: the
\* monthly rate in cents, the age increases and the discount in hundredths.
SourceQuote(naic, effective_date, select) ==
    [naic |-> naic, gender |-> "M", tobacco |-> 0, age |-> 65, plan |-> "G",
     month |-> 10000, age_increases |-> <<5>>, discounts |-> <<10>>,
     effective_date |-> effective_date, select |-> select, rating_class |-> "Standard"]

\* What the source may return for a request about a carrier: a quote of the
\* carrier dated on either day or carrying no effective date, and a quote of
\* another carrier.
SourceQuotes(naic) ==
    {SourceQuote(naic, e, FALSE) : e \in {DateStr(1, NoTime), DateStr(2, NoTime), NULL}}
    \cup {SourceQuote(CHOOSE n \in NAICS : n # naic, DateStr(1, NoTime), FALSE)}

Responses(naic) == {<<>>} \cup SeqsUpTo(SourceQuotes(naic), MaxQuotes)

\* filter_quote: <<>> (None) for a select quote or a rating class that is not
\* kept, else the one record of the desired fields (effective_date is not one).
filter_quote(quote) ==
    IF quote.select THEN <<>>
    ELSE IF quote.rating_class \notin {"", "Standard", "Achieve", "Value"} THEN <<>>
    ELSE <<[age |-> quote.age, age_increases |-> quote.age_increases,
            discounts |-> quote.discounts, gender |-> quote.gender, plan |-> quote.plan,
            tobacco |-> quote.tobacco, naic |-> quote.naic, rate |-> quote.month]>>

\* round(x, 2) of the amount n / d cents: to the nearest cent, a tie to the even one.
RoundHalfEven(n, d) ==
    LET q == n \div d
        r == n % d
    IN IF 2 * r < d THEN q
       ELSE IF 2 * r > d THEN q + 1
       ELSE IF q % 2 = 0 THEN q ELSE q + 1

\* reduce(lambda x, y: x * y, rate_mults[:i]): the first multiplier is 1.0, the
\* others are in hundredths, so the product is in hundredths to the power i - 1.
RECURSIVE Product(_, _)
Product(rate_mults, i) == IF i = 0 THEN 1 ELSE rate_mults[i] * Product(rate_mults, i - 1)

RECURSIVE Power(_, _)
Power(b, i) == IF i = 0 THEN 1 ELSE b * Power(b, i - 1)

\* process_quote(quote, region_id, state): one rate record per age.
process_quote(quote, region_id, state) ==
    IF filter_quote(quote) = <<>> THEN <<>>
    ELSE
      LET filtered == filter_quote(quote)[1]
          effective_date ==
              IF quote.effective_date # NULL THEN quote.effective_date
              ELSE IF "effective_date" \in DOMAIN filtered THEN filtered.effective_date
              ELSE NULL
          rate_mults == <<1>> \o [j \in DOMAIN filtered.age_increases |->
                                     filtered.age_increases[j] + 100]
          discount_mult == IF filtered.discounts = <<>> THEN 100
                           ELSE 100 - filtered.discounts[1]
      IN [i \in 1..Len(rate_mults) |->
            LET rate_value == RoundHalfEven(filtered.rate * Product(rate_mults, i),
                                            Power(100, i - 1))
            IN [region_id |-> region_id, gender |-> filtered.gender,
                tobacco |-> filtered.tobacco, age |-> filtered.age + i - 1,
                naic |-> quote.naic, plan |-> filtered.plan, rate |-> rate_value,
                discount_rate |-> RoundHalfEven(discount_mult * rate_value, 100),
                effective_date |-> effective_date, state |-> state]]

\* The loop of fetch_and_process over the quotes of one response.
RECURSIVE ResponseRows(_, _, _, _, _)
ResponseRows(state, naic, region_id, response, i) ==
    IF i > Len(response) THEN <<>>
    ELSE (IF response[i].naic = naic THEN process_quote(response[i], region_id, state)
          ELSE <<>>)
         \o ResponseRows(state, naic, region_id, response, i + 1)

fetch_rates_requested_date(state, naic, region_id, response, effective_date) ==
    LET rows == ResponseRows(state, naic, region_id, response, 1)
    IN [i \in DOMAIN rows |-> [rows[i] EXCEPT !.effective_date = effective_date]]

\* fetch_rates for one demographic combination (plan G, male, non-tobacco, base
\* age 65): the records made of the response to the request for effective_date.
fetch_rates(state, naic, region_id, response, effective_date) ==
    ResponseRows(state, naic, region_id, response, 1)

-----------------------------------------------------------------------------
(* Processing records *)

\* mark_processed: INSERT OR REPLACE on (state, naic, effective_date);
\* api_effective_date is the list of dates, <<>> for None.
mark_processed(pd, state, naic, effective_date, success, api_effective_date) ==
    {p \in pd : ~(p.state = state /\ p.naic = naic /\ p.effective_date = effective_date)}
    \cup {[state |-> state, naic |-> naic, effective_date |-> effective_date,
           api_effective_date |-> IF api_effective_date = <<>> THEN <<effective_date>>
                                  ELSE api_effective_date,
           success |-> success]}

\* COUNT(*) > 0 of rate_store JOIN region_mapping for a carrier and state.
HasMappedRate(naic, state, dates) ==
    \E r \in rate_store :
        /\ \E m \in region_mapping : r.region_id = m.region_id /\ r.naic = m.naic
        /\ r.naic = naic
        /\ r.state = state
        /\ r.effective_date \in dates

SuccessRecords(state, naic, effective_date) ==
    {p \in processed_data : /\ p.state = state /\ p.naic = naic
                            /\ p.effective_date = effective_date /\ p.success}

is_already_processed_record_only(state, naic, effective_date) ==
    SuccessRecords(state, naic, effective_date) # {}

\* is_already_processed(state, naic, effective_date)
is_already_processed(state, naic, effective_date) ==
    LET result == SuccessRecords(state, naic, effective_date)
    IN IF result = {} THEN FALSE
       ELSE LET api_dates == (CHOOSE p \in result : TRUE).api_effective_date
            IN IF api_dates # <<>>
               THEN \A i \in DOMAIN api_dates : HasMappedRate(naic, state, {api_dates[i]})
               ELSE HasMappedRate(naic, state, {r.effective_date : r \in rate_store})

\* get_already_processed_regions(naic, state, effective_date)
get_already_processed_regions(naic, state, effective_date) ==
    {r.region_id : r \in {x \in rate_store : /\ x.naic = naic /\ x.state = state
                                             /\ x.effective_date = effective_date}}

\* cleanup_orphaned_entries: processed_data without the success records that
\* have no rate row for their carrier, state and requested date.
cleanup_orphaned_entries(pd, store) ==
    {p \in pd : ~(/\ p.success
                  /\ ~\E r \in store : /\ r.naic = p.naic /\ r.state = p.state
                                       /\ r.effective_date = p.effective_date)}

\* RateSpotChecker._check_month_data
check_month_data(state, naic, effective_date) ==
    \E r \in rate_store :
        /\ \E reg \in rate_regions : reg.region_id = r.region_id /\ reg.state = state
        /\ r.naic = naic
        /\ r.effective_date = effective_date

\* RateSpotChecker.mark_processed: always a success record.
spot_mark_processed(pd, state, naic, effective_date, api_effective_date) ==
    mark_processed(pd, state, naic, effective_date, TRUE, api_effective_date)

-----------------------------------------------------------------------------
(* The build: process_carrier_state for every unit, step by step *)

\* ','.join(sorted(api_effective_dates)) as the list of its dates.
RECURSIVE SortDates(_)
SortDates(S) ==
    IF S = {} THEN <<>>
    ELSE LET m == CHOOSE x \in S : \A y \in S : y = x \/ StrLess(x, y)
         IN <<m>> \o SortDates(S \ {m})

\* One region id per region hash, in the order of region_ids.
RECURSIVE UniqueLoop(_, _, _, _, _)
UniqueLoop(meta, region_ids, i, unique_region_ids, processed_hashes) ==
    IF i > Len(region_ids) THEN unique_region_ids
    ELSE LET found == {m.region_hash : m \in {x \in meta : x.region_id = region_ids[i]}}
         IN IF found = {} \/ found \subseteq processed_hashes
            THEN UniqueLoop(meta, region_ids, i + 1, unique_region_ids, processed_hashes)
            ELSE UniqueLoop(meta, region_ids, i + 1, Append(unique_region_ids, region_ids[i]),
                            processed_hashes \cup found)

\* The loop over regions_to_process[i..] that awaits fetch_rates for each.
RECURSIVE PricingLoop(_, _, _, _, _, _)
PricingLoop(u, regions_to_process, responses, i, all_rates, api_effective_dates) ==
    IF i > Len(regions_to_process)
    THEN [all_rates |-> all_rates, api_effective_dates |-> api_effective_dates]
    ELSE LET region_rates == fetch_rates(u.state, u.naic, regions_to_process[i],
                                         responses[i], u.effective_date)
         IN PricingLoop(u, regions_to_process, responses, i + 1,
                        all_rates \o region_rates,
                        api_effective_dates
                          \cup {region_rates[k].effective_date : k \in DOMAIN region_rates})

\* process_carrier_state up to its first await.
StartUnit(u, dry_run) ==
    /\ unit[u].pc = "Pending"
    /\ unit' = [unit EXCEPT ![u] =
                  IF is_already_processed(u.state, u.naic, u.effective_date)
                  THEN Finished("AlreadyProcessed")
                  ELSE IF dry_run THEN Finished("DryRun")
                  ELSE [pc |-> "Discovering", regions_to_process |-> <<>>, mapping_type |-> ""]]
    /\ obs' = [op |-> "start", u |-> u, dry_run |-> dry_run]
    /\ UNCHANGED <<rate_regions, region_metadata, region_mapping, rate_store,
                   processed_data, correction_log, next_uuid>>
    /\ UNCHANGED other_vars

\* process_carrier_state from the return of get_rate_regions to the await of
\* the first fetch_rates task.
DiscoveryDone(u, probe, state_zips, state_counties, fail_at) ==
    /\ unit[u].pc = "Discovering"
    /\ LET found == get_rate_regions(u.state, u.naic, probe, state_zips, state_counties)
           saved == save_region_data(Tables, u.state, u.naic, found.regions,
                                     found.mapping_type, next_uuid, fail_at)
           unique_region_ids == UniqueLoop(saved.db.meta, saved.region_ids, 1, <<>>, {})
           processed_regions ==
               get_already_processed_regions(u.naic, u.state, u.effective_date)
           regions_to_process ==
               SelectSeq(unique_region_ids, LAMBDA r : r \notin processed_regions)
       IN /\ found.regions = <<>> => fail_at = 0
          /\ saved.uuid <= MaxRegionIds + 1
          /\ IF found.regions = <<>>
             THEN /\ UNCHANGED <<rate_regions, region_metadata, region_mapping, next_uuid>>
                  /\ processed_data' = mark_processed(processed_data, u.state, u.naic,
                                                      u.effective_date, FALSE, <<>>)
                  /\ unit' = [unit EXCEPT ![u] = Finished("Failed")]
             ELSE /\ region_metadata' = saved.db.meta
                  /\ rate_regions' = saved.db.regions
                  /\ region_mapping' = saved.db.mapping
                  /\ next_uuid' = saved.uuid
                  /\ IF saved.region_ids = <<>>
                     THEN /\ processed_data' = mark_processed(processed_data, u.state, u.naic,
                                                              u.effective_date, FALSE, <<>>)
                          /\ unit' = [unit EXCEPT ![u] = Finished("Failed")]
                     ELSE IF regions_to_process = <<>>
                     THEN /\ processed_data' = mark_processed(processed_data, u.state, u.naic,
                                                              u.effective_date, TRUE, <<>>)
                          /\ unit' = [unit EXCEPT ![u] = Finished("Succeeded")]
                     ELSE /\ processed_data' = processed_data
                          /\ unit' = [unit EXCEPT ![u] =
                                        [pc |-> "Pricing",
                                         regions_to_process |-> regions_to_process,
                                         mapping_type |-> found.mapping_type]]
          /\ obs' = [op |-> "discovery", u |-> u,
                     hashes |-> {get_region_hash(found.regions[i]) : i \in DOMAIN found.regions},
                     failed |-> found.regions # <<>> /\ saved.failed]
    /\ UNCHANGED <<rate_store, correction_log>>
    /\ UNCHANGED other_vars

\* process_carrier_state from the results of the fetch_rates tasks to its
\* return: save_rates, the verification and the processing record.
PricingDone(u, responses) ==
    /\ unit[u].pc = "Pricing"
    /\ LET fetched == PricingLoop(u, unit[u].regions_to_process, responses, 1, <<>>, {})
           saved == save_rates(rate_store, fetched.all_rates)
           store == IF fetched.all_rates = <<>> THEN rate_store ELSE saved.store
           api_effective_dates == fetched.api_effective_dates
           rate_count ==
               IF api_effective_dates # {}
               THEN Cardinality({r \in store : /\ r.naic = u.naic /\ r.state = u.state
                                               /\ r.effective_date # NULL
                                               /\ r.effective_date \in api_effective_dates})
               ELSE Cardinality({r \in store : r.naic = u.naic /\ r.state = u.state})
           raises == NULL \in api_effective_dates
       IN /\ rate_store' = store
          /\ correction_log' = IF fetched.all_rates = <<>> THEN correction_log ELSE saved.log
          /\ IF rate_count = 0 \/ raises
             THEN /\ processed_data' = mark_processed(processed_data, u.state, u.naic,
                                                      u.effective_date, FALSE, <<>>)
                  /\ unit' = [unit EXCEPT ![u] = Finished("Failed")]
             ELSE /\ processed_data' = mark_processed(processed_data, u.state, u.naic,
                                                      u.effective_date, TRUE,
                                                      SortDates(api_effective_dates))
                  /\ unit' = [unit EXCEPT ![u] = Finished("Succeeded")]
          /\ obs' = [op |-> "pricing", u |-> u, regions |-> unit[u].regions_to_process,
                     responses |-> responses, new_rows |-> store \ rate_store]
    /\ UNCHANGED <<rate_regions, region_metadata, region_mapping, next_uuid>>
    /\ UNCHANGED other_vars

\* A new run of the builder on the same database: __init__ creates the tables
\* if missing and calls cleanup_orphaned_entries; every unit is to be done.
NewRun ==
    /\ \A u \in Units : unit[u].pc \notin {"Discovering", "Pricing"}
    /\ \E u \in Units : unit[u].pc # "Pending"
    /\ processed_data' = cleanup_orphaned_entries(processed_data, rate_store)
    /\ unit' = [u \in Units |-> Finished("Pending")]
    /\ obs' = [op |-> "new_run"]
    /\ UNCHANGED <<rate_regions, region_metadata, region_mapping, rate_store,
                   correction_log, next_uuid>>
    /\ UNCHANGED other_vars

\* RateSpotChecker.process_carrier_month for a month without data whose spot
\* check finds the rates unchanged: the month is marked processed.
SpotCheckUnchanged(u) ==
    /\ ~check_month_data(u.state, u.naic, u.effective_date)
    /\ processed_data' = spot_mark_processed(processed_data, u.state, u.naic,
                                             u.effective_date, <<>>)
    /\ obs' = [op |-> "spot_check", u |-> u]
    /\ UNCHANGED <<rate_regions, region_metadata, region_mapping, rate_store,
                   correction_log, next_uuid, unit>>
    /\ UNCHANGED other_vars

BuildStart == \E u \in Units, dry_run \in BOOLEAN : StartUnit(u, dry_run)

\* The save of a discovery either goes through or fails at its first write.
BuildDiscovery ==
    \E u \in Units, probe \in ZIPS, fail_at \in {0, 1} :
      \E state_zips \in Orders(ZIPS), state_counties \in Orders(COUNTIES) :
        DiscoveryDone(u, probe, state_zips, state_counties, fail_at)

BuildPricing ==
    \E u \in Units :
      \E responses \in [DOMAIN unit[u].regions_to_process -> Responses(u.naic)] :
        PricingDone(u, responses)

BuildSpotCheck == \E u \in Units : SpotCheckUnchanged(u)

NextBuild == BuildStart \/ BuildDiscovery \/ BuildPricing \/ NewRun \/ BuildSpotCheck

SpecBuild == Init /\ [][NextBuild]_vars

OrphanRecord(u) ==
    \E p \in SuccessRecords(u.state, u.naic, u.effective_date) :
        ~\E r \in rate_store :
            /\ r.naic = u.naic
            /\ r.state = u.state
            /\ \E i \in DOMAIN p.api_effective_date : r.effective_date = p.api_effective_date[i]

\* C10: a unit with a success record and no matching rate row is not skipped
\* as AlreadyProcessed when process_carrier_state takes it up: it goes on to
\* discovery (or, in a dry run, is reported as to be processed).
C10_OrphanReprocessed ==
    [][\A u \in Units :
         (unit[u].pc = "Pending" /\ unit'[u].pc # "Pending" /\ OrphanRecord(u))
         => /\ unit'[u].pc # "AlreadyProcessed"
            /\ (IF obs'.dry_run THEN unit'[u].pc = "DryRun"
                ELSE unit'[u].pc = "Discovering")]_vars

\* A unit with an orphaned success record that has gone on to discovery.
C10_Witness ==
    /\ obs.op = "start"
    /\ ~obs.dry_run
    /\ OrphanRecord(obs.u)
    /\ unit[obs.u].pc = "Discovering"

\* C5: two discoveries in a row for one carrier and state, neither with a
\* failed write, find the same set of region hashes, and the second adds no
\* region, whatever the probe orders.
C5_DiscoveryDeterministic ==
    [][(/\ obs.op = "discovery"
        /\ obs'.op = "discovery"
        /\ obs.u.naic = obs'.u.naic
        /\ obs.u.state = obs'.u.state
        /\ ~obs.failed
        /\ ~obs'.failed)
       => /\ obs'.hashes = obs.hashes
          /\ region_metadata' = region_metadata
          /\ rate_regions' = rate_regions]_vars

\* A saved unit: it has a success record, and for every source date of the
\* record the rate cache holds a row of the carrier and state with that date.
SavedUnit(u) ==
    \E p \in SuccessRecords(u.state, u.naic, u.effective_date) :
        \A i \in DOMAIN p.api_effective_date :
            \E r \in rate_store :
                /\ r.naic = u.naic
                /\ r.state = u.state
                /\ r.effective_date = p.api_effective_date[i]

\* C30: a saved unit that process_carrier_state takes up is skipped as
\* AlreadyProcessed in its first step, before discovery or pricing send
\* anything to the source, and the region store, the location mappings, the
\* rate cache and the processing records are as they were; the start of a new
\* run leaves them alone as well, so a saved unit is still saved in the next
\* run.
C30_SavedUnitSkipped ==
    [][\A u \in Units :
         /\ (unit[u].pc = "Pending" /\ unit'[u].pc # "Pending" /\ SavedUnit(u))
            => /\ unit'[u] = Finished("AlreadyProcessed")
               /\ obs'.op = "start"
               /\ UNCHANGED <<rate_regions, region_metadata, region_mapping,
                              rate_store, processed_data, next_uuid>>
         /\ (obs'.op = "new_run" /\ SavedUnit(u))
            => /\ UNCHANGED <<rate_regions, region_metadata, region_mapping, rate_store>>
               /\ SuccessRecords(u.state, u.naic, u.effective_date)'
                     = SuccessRecords(u.state, u.naic, u.effective_date)]_vars

\* The part of C30 about one run: a saved unit that is taken up is skipped in
\* its first step and nothing stored changes.
SavedUnitSkippedInRun ==
    [][\A u \in Units :
         (unit[u].pc = "Pending" /\ unit'[u].pc # "Pending" /\ SavedUnit(u))
         => /\ unit'[u] = Finished("AlreadyProcessed")
            /\ obs'.op = "start"
            /\ UNCHANGED <<rate_regions, region_metadata, region_mapping,
                           rate_store, processed_data, next_uuid>>]_vars

\* A saved unit was taken up and skipped.
SkippedSavedUnit ==
    /\ obs.op = "start"
    /\ unit[obs.u].pc = "AlreadyProcessed"
    /\ SavedUnit(obs.u)

\* A unit that was skipped is not worked on in the same run: it stays skipped
\* until a new run makes every unit pending again.
SkippedStaysSkipped ==
    [][\A u \in Units :
         unit[u].pc = "AlreadyProcessed"
         => unit'[u].pc \in {"AlreadyProcessed", "Pending"}]_vars

\* Every unit of a run was saved and skipped, which happens when the rows of
\* the units are dated on the dates the units asked for.
SecondRunSkipsAll ==
    \A u \in Units : unit[u].pc = "AlreadyProcessed" /\ SavedUnit(u)

\* A unit the spot check settled: its success record names the requested
\* date as the source date (what RateSpotChecker.mark_processed writes) and
\* the rate cache has no row of the carrier and state dated on it.
SpotSettled(u) ==
    /\ \E p \in SuccessRecords(u.state, u.naic, u.effective_date) :
          p.api_effective_date = <<u.effective_date>>
    /\ ~\E r \in rate_store :
          r.naic = u.naic /\ r.state = u.state /\ r.effective_date = u.effective_date

\* C31: a unit the spot check found unchanged is marked processed without a
\* fetch, and a later run neither checks it again nor fetches it again: the
\* spot check is not run for it once more, the builder skips it as
\* AlreadyProcessed, and the start of a run keeps its record.
C31_NoChangeSettlesUnit ==
    [][\A u \in Units :
         /\ (obs'.op = "spot_check" /\ obs'.u = u)
            => /\ rate_store' = rate_store
               /\ SuccessRecords(u.state, u.naic, u.effective_date)' # {}
         /\ SpotSettled(u)
            => /\ ~(obs'.op = "spot_check" /\ obs'.u = u)
               /\ (unit[u].pc = "Pending" /\ unit'[u].pc # "Pending")
                     => unit'[u].pc = "AlreadyProcessed"
               /\ obs'.op = "new_run"
                     => SuccessRecords(u.state, u.naic, u.effective_date)' # {}]_vars

\* The part of C31 about the spot check itself: it stores no rate row and
\* leaves a success record of the unit.
SpotMarksWithoutFetch ==
    [][\A u \in Units :
         (obs'.op = "spot_check" /\ obs'.u = u)
         => /\ rate_store' = rate_store
            /\ SuccessRecords(u.state, u.naic, u.effective_date)' # {}]_vars

\* What the builder does with a unit the spot check settled: it is never
\* skipped, it goes on to discovery (or is reported by a dry run).
SpotSettledReprocessed ==
    [][\A u \in Units :
         (SpotSettled(u) /\ unit[u].pc = "Pending" /\ unit'[u].pc # "Pending")
         => unit'[u].pc \in {"Discovering", "DryRun"}]_vars

\* A unit the spot check settled went on to discovery.
SpotSettledDiscovering ==
    /\ obs.op = "start"
    /\ SpotSettled(obs.u)
    /\ unit[obs.u].pc = "Discovering"

\* The start of a run deleted the success record of the unit.
RecordDeleted(u) ==
    /\ obs'.op = "new_run"
    /\ SuccessRecords(u.state, u.naic, u.effective_date) # {}
    /\ SuccessRecords(u.state, u.naic, u.effective_date)' = {}

\* C33: cleanup_orphaned_entries deletes a success record only if
\* is_already_processed would not skip the unit either, and never the record
\* of a unit whose recorded source dates all have rate rows.
C33_CleanupAgreesWithSkip ==
    [][\A u \in Units :
         RecordDeleted(u)
         => /\ ~is_already_processed(u.state, u.naic, u.effective_date)
            /\ ~SavedUnit(u)]_vars

\* What cleanup_orphaned_entries goes by: it deletes a success record if and
\* only if no rate row of the carrier and state is dated on the requested
\* date of the record.
CleanupGoesByRequestedDate ==
    [][\A u \in Units :
         (obs'.op = "new_run" /\ SuccessRecords(u.state, u.naic, u.effective_date) # {})
         => (RecordDeleted(u)
             <=> ~\E r \in rate_store : /\ r.naic = u.naic /\ r.state = u.state
                                        /\ r.effective_date = u.effective_date)]_vars

\* The region identifiers the region store holds.
StoredRegionIds == {rr.region_id : rr \in rate_regions}

\* C37: after any sequence of build operations (region saves, rate saves,
\* processed marking, the cleanup at the start of a run) every region
\* identifier on a rate row or on a mapping row exists in the region store.
C37_ReferencedRegionsExist ==
    /\ \A r \in rate_store : r.region_id \in StoredRegionIds
    /\ \A m \in region_mapping : m.region_id \in StoredRegionIds

\* A run has started on a database that holds rate rows and mapping rows,
\* after a region save that failed and was rolled back.
C37_Witness ==
    /\ obs.op = "new_run"
    /\ rate_store # {}
    /\ region_mapping # {}
    /\ \E p \in processed_data : ~p.success

-----------------------------------------------------------------------------
(* Failure isolation between the units of one build *)

\* The step just taken was a failure of its unit: discovery found no region,
\* the region save raised, or no response of the pricing step gave a record.
UnitFailure ==
    \/ /\ obs'.op = "discovery"
       /\ (obs'.hashes = {} \/ obs'.failed)
    \/ /\ obs'.op = "pricing"
       /\ PricingLoop(obs'.u, obs'.regions, obs'.responses, 1, <<>>, {}).all_rates = <<>>

\* C11: a step in which a unit fails (discovery or pricing yields nothing, the
\* region save raises) ends that unit as Failed, leaves every other unit where
\* it was and able to go on, and removes nothing the build has committed.
C11_FailureIsolated ==
    [][UnitFailure =>
         /\ unit'[obs'.u].pc = "Failed"
         /\ \A v \in Units \ {obs'.u} : unit'[v] = unit[v]
         /\ rate_store \subseteq rate_store'
         /\ region_metadata \subseteq region_metadata'
         /\ rate_regions \subseteq rate_regions'
         /\ region_mapping \subseteq region_mapping']_vars

\* The isolation half of C11 alone: whatever a failing unit ends as, the other
\* units are left where they were and nothing committed is removed.
OtherUnitsUntouched ==
    [][UnitFailure =>
         /\ \A v \in Units \ {obs'.u} : unit'[v] = unit[v]
         /\ rate_store \subseteq rate_store'
         /\ region_metadata \subseteq region_metadata'
         /\ rate_regions \subseteq rate_regions'
         /\ region_mapping \subseteq region_mapping']_vars

\* The discovery step of a unit came back without regions.
NoDataOutcome ==
    /\ obs'.op = "discovery"
    /\ obs'.hashes = {}
    /\ ~obs'.failed

\* The record of processed_data for a unit.
RecordOf(pd, u) ==
    {p \in pd : p.state = u.state /\ p.naic = u.naic /\ p.effective_date = u.effective_date}

\* C15: when discovery finds nothing for a unit, the outcome is recorded in
\* the unit's processing record and is terminal: the check process_carrier_state
\* makes first in a later run (is_already_processed) finds the unit done, so
\* the unit is not probed again.
C15_NoDataTerminal ==
    [][\A u \in Units :
          (NoDataOutcome /\ obs'.u = u)
          => /\ RecordOf(processed_data', u) # {}
             /\ is_already_processed(u.state, u.naic, u.effective_date)']_vars

\* The recording half of C15: a discovery without regions leaves a record of
\* the unit, with success = false.
NoDataRecorded ==
    [][NoDataOutcome
        => \E p \in RecordOf(processed_data', obs'.u) : ~p.success]_vars

\* A unit whose record says failure is being probed again in a later run.
ProbedAgain ==
    \E u \in Units : /\ unit[u].pc = "Discovering"
                     /\ \E p \in RecordOf(processed_data, u) : ~p.success

\* The region with this identifier is in the tables db of the region store
\* for the unit's carrier and state: its metadata row, its region row and a
\* mapping row.
CommittedIn(db, region_id, u) ==
    /\ \E m \in db.meta : m.region_id = region_id /\ m.naic = u.naic /\ m.state = u.state
    /\ \E g \in db.regions : g.region_id = region_id
    /\ \E x \in db.mapping : x.region_id = region_id /\ x.naic = u.naic

Committed(region_id, u) == CommittedIn(Tables, region_id, u)

\* C23: within a unit the pricing requests are sent only after the discovery of
\* the unit has returned and its regions and mappings are committed to the
\* region store: every region priced is committed before the pricing step, a
\* unit enters pricing only by a discovery whose save went through, and a
\* discovery whose save failed ends the unit as Failed with no pricing.
C23_PricingAfterCommit ==
    [][\A u \in Units :
          /\ (obs'.op = "pricing" /\ obs'.u = u)
             => /\ unit[u].pc = "Pricing"
                /\ \A i \in DOMAIN obs'.regions : Committed(obs'.regions[i], u)
          /\ (unit'[u].pc = "Pricing" /\ unit[u].pc # "Pricing")
             => /\ obs'.op = "discovery" /\ obs'.u = u /\ ~obs'.failed
                /\ \A i \in DOMAIN unit'[u].regions_to_process :
                      CommittedIn(Tables', unit'[u].regions_to_process[i], u)
          /\ (obs'.op = "discovery" /\ obs'.u = u /\ obs'.failed)
             => unit'[u].pc = "Failed"]_vars

\* A unit priced a committed region and stored its rows.
C23_Witness ==
    /\ obs.op = "pricing"
    /\ obs.regions # <<>>
    /\ obs.new_rows # {}
    /\ \A i \in DOMAIN obs.regions : Committed(obs.regions[i], obs.u)

\* A discovery whose save failed left the unit Failed and the region store
\* without a region of the unit's carrier.
FailedCommit ==
    /\ obs.op = "discovery" /\ obs.failed
    /\ unit[obs.u].pc = "Failed"
    /\ ~\E m \in region_metadata : m.naic = obs.u.naic

\* The rate records the pricing step of unit u made of the responses to its
\* requests for the given regions.
Produced(u, regions, responses) ==
    Range(PricingLoop(u, regions, responses, 1, <<>>, {}).all_rates)

\* The records of a pricing step that are rows of the store.
ProducedAndStored(u, regions, responses, store) ==
    {r \in Produced(u, regions, responses) : r \in store}

\* C24: after every attempt at a unit that is not skipped, the unit has a
\* processing record whose success flag is the outcome of the attempt: true
\* exactly when the attempt ended with rates saved (rows of its pricing step
\* in the cache, or every region already holding rows of the requested date),
\* false when discovery found nothing, the region save failed or no rate was
\* saved.
C24_RecordMatchesOutcome ==
    [][\A u \in Units :
          /\ (obs'.op = "pricing" /\ obs'.u = u)
             => /\ RecordOf(processed_data', u) # {}
                /\ \A p \in RecordOf(processed_data', u) :
                      p.success <=> ProducedAndStored(u, obs'.regions, obs'.responses,
                                                      rate_store') # {}
          /\ (obs'.op = "discovery" /\ obs'.u = u /\ unit'[u].pc # "Pricing")
             => /\ RecordOf(processed_data', u) # {}
                /\ \A p \in RecordOf(processed_data', u) :
                      p.success <=> (/\ obs'.hashes # {} /\ ~obs'.failed
                                     /\ \E r \in rate_store' :
                                           /\ r.naic = u.naic /\ r.state = u.state
                                           /\ r.effective_date = u.effective_date)]_vars

\* The part of C24 that does not depend on the verification of the pricing
\* step: every attempt that ends leaves a record of the unit, and an attempt
\* that ends in discovery leaves the flag of its outcome.
RecordAfterAttempt ==
    [][\A u \in Units :
          /\ (obs'.op = "pricing" /\ obs'.u = u) => RecordOf(processed_data', u) # {}
          /\ (obs'.op = "discovery" /\ obs'.u = u /\ unit'[u].pc # "Pricing")
             => /\ RecordOf(processed_data', u) # {}
                /\ \A p \in RecordOf(processed_data', u) :
                      p.success <=> unit'[u].pc = "Succeeded"]_vars

\* C25: a unit is marked successfully processed by its pricing step only if
\* rate rows that step produced are in the rate cache after the writes; when
\* none of them is stored the unit is Failed, whatever other rows of the
\* carrier the cache holds.
C25_SuccessNeedsOwnRows ==
    [][\A u \in Units :
          (/\ obs'.op = "pricing" /\ obs'.u = u
           /\ ProducedAndStored(u, obs'.regions, obs'.responses, rate_store') = {})
          => /\ unit'[u].pc = "Failed"
             /\ \A p \in RecordOf(processed_data', u) : ~p.success]_vars

\* The verification on an empty cache: a pricing step that stores nothing
\* while the cache holds no row of the carrier and state fails the unit.
EmptyCacheVerified ==
    [][\A u \in Units :
          (/\ obs'.op = "pricing" /\ obs'.u = u
           /\ ~\E r \in rate_store' : r.naic = u.naic /\ r.state = u.state)
          => /\ unit'[u].pc = "Failed"
             /\ \A p \in RecordOf(processed_data', u) : ~p.success]_vars

-----------------------------------------------------------------------------
(* The delta detector: RateSpotChecker.spot_check_carrier, one step per await *)

SampleSize == 1        \* demographic combinations in a sample (6 in the code, scaled)
RegionLimit == 2       \* limit of get_representative_regions

\* The combinations get_sample_demographics draws from (16 in the code).
Demographics == {[gender |-> "M", tobacco |-> 0, age |-> age] : age \in {65, 70}}

\* random.shuffle(demographics)[:6]: the samples of SampleSize distinct combinations.
Samples ==
    {d \in [1..SampleSize -> Demographics] : \A i, j \in 1..SampleSize : i # j => d[i] # d[j]}

\* The plans spot_check_carrier checks in a state.
spot_plans(state) ==
    IF state = "MA" THEN <<"MA_CORE">>
    ELSE IF state = "MN" THEN <<"MN_BASIC">>
    ELSE IF state = "WI" THEN <<"WIR_A50%">>
    ELSE <<"G", "N">>

\* ORDER BY region_id LIMIT ?: the smallest identifiers of S, in order.
RECURSIVE FirstIds(_, _)
FirstIds(S, limit) ==
    IF S = {} \/ limit = 0 THEN <<>>
    ELSE LET m == CHOOSE x \in S : \A y \in S : x <= y
         IN <<m>> \o FirstIds(S \ {m}, limit - 1)

\* rep_zip of a region: its first location, or the first ZIP code of its first
\* county that has one; "" for none.
rep_zip_of(state, mapping_type, locations) ==
    IF mapping_type = "zip5"
    THEN IF locations = <<>> THEN "" ELSE locations[1]
    ELSE LET with_zips == SelectSeq(locations, LAMBDA c : lookup_zip_by_county(state, c) # <<>>)
         IN IF with_zips = <<>> THEN "" ELSE lookup_zip_by_county(state, with_zips[1])[1]

\* get_representative_regions(state, naic, limit); db_error is an exception of
\* the query, which the method turns into [].
get_representative_regions(state, naic, limit, db_error) ==
    IF db_error THEN <<>>
    ELSE LET result == FirstIds({r.region_id : r \in {x \in rate_regions :
                                     x.state = state /\ x.naic = naic}}, limit)
             regions == [i \in DOMAIN result |->
                           LET reg == CHOOSE x \in rate_regions : x.region_id = result[i]
                           IN [region_id |-> reg.region_id,
                               rep_zip |-> rep_zip_of(state, reg.mapping_type, reg.region_data),
                               mapping_type |-> reg.mapping_type]]
         IN SelectSeq(regions, LAMBDA r : r.rep_zip # "")

get_db_rate_by_date(region_id, gender, tobacco, age, naic, plan, effective_date) ==
    LET of_key == {r \in rate_store : /\ r.region_id = region_id /\ r.gender = gender
                                      /\ r.tobacco = tobacco /\ r.age = age /\ r.naic = naic
                                      /\ r.plan = plan
                                      /\ CastDate(r.effective_date) <= CastDate(effective_date)}
    IN IF of_key = {} THEN {}
       ELSE {r \in of_key : r.effective_date = MaxStr({x.effective_date : x \in of_key})}

\* _get_db_rate: the row of the key with the largest effective_date (TEXT)
\* among those with effective_date <= ? (TEXT comparison); {} for (None, None).
get_db_rate(region_id, gender, tobacco, age, naic, plan, effective_date) ==
    LET of_key == {r \in rate_store : /\ r.region_id = region_id /\ r.gender = gender
                                      /\ r.tobacco = tobacco /\ r.age = age /\ r.naic = naic
                                      /\ r.plan = plan
                                      /\ (r.effective_date = effective_date
                                          \/ StrLess(r.effective_date, effective_date))}
    IN IF of_key = {} THEN {}
       ELSE {r \in of_key : r.effective_date = MaxStr({x.effective_date : x \in of_key})}

\* api_rates of _compare_rates: rate and effective date of the quotes of the
\* carrier that filter_quote keeps.
api_rates(naic, response) ==
    LET kept == SelectSeq(response, LAMBDA q : q.naic = naic /\ filter_quote(q) # <<>>)
    IN [i \in DOMAIN kept |-> [rate |-> filter_quote(kept[i])[1].rate,
                               effective_date |-> kept[i].effective_date]]

\* _compare_rates for one sample point; answer is what fetch_quote does when
\* it is called: it raises, or returns the quotes.
compare_rates(naic, point, answer, source_date) ==
    LET db == get_db_rate(point.region_id, point.gender, point.tobacco, point.age,
                          naic, point.plan, source_date)
    IN IF db = {} THEN [fetched |-> FALSE, changed |-> TRUE]
       ELSE IF answer.raised THEN [fetched |-> TRUE, changed |-> TRUE]
       ELSE LET row == CHOOSE r \in db : TRUE
                rates == api_rates(naic, answer.quotes)
            IN IF rates = <<>> THEN [fetched |-> TRUE, changed |-> TRUE]
               ELSE [fetched |-> TRUE,
                     changed |-> \E i \in DOMAIN rates :
                                    \/ row.rate # rates[i].rate
                                    \/ row.effective_date # rates[i].effective_date]

\* The sample points in the order of the three nested loops.
sample_points(regions, demographics, plans) ==
    [k \in 1..(Len(regions) * Len(demographics) * Len(plans)) |->
        LET r == ((k - 1) \div (Len(demographics) * Len(plans))) + 1
            d == (((k - 1) \div Len(plans)) % Len(demographics)) + 1
            p == ((k - 1) % Len(plans)) + 1
        IN [region_id |-> regions[r].region_id, rep_zip |-> regions[r].rep_zip,
            gender |-> demographics[d].gender, tobacco |-> demographics[d].tobacco,
            age |-> demographics[d].age, plan |-> plans[p]]]

\* What the caller of spot_check_carrier gets.
SpotDone(result, points, compared) ==
    [pc |-> "done", result |-> result, points |-> points, compared |-> compared]

\* spot_check_carrier up to its first await.
SpotStart(state, naic, source_date, target_date, demographics, db_error) ==
    /\ spot.pc # "running"
    /\ LET regions == get_representative_regions(state, naic, RegionLimit, db_error)
           points == sample_points(regions, demographics, spot_plans(state))
       IN spot' = IF regions = <<>> THEN SpotDone(FALSE, <<>>, <<>>)
                  ELSE [pc |-> "running", state |-> state, naic |-> naic,
                        source_date |-> source_date, target_date |-> target_date,
                        points |-> points, i |-> 1, compared |-> <<>>]
    /\ obs' = [op |-> "spot_check_carrier", source_date |-> source_date, db_error |-> db_error]
    /\ UNCHANGED <<build_vars, source, key_rate_store, permits, task, request>>

\* From one await of _compare_rates to the next, or to the return.  What is
\* kept of the point: the answer, whether it was fetched, the verdict, and
\* the row the cache holds for the point as of source_date.
SpotStep(answer) ==
    /\ spot.pc = "running"
    /\ LET point == spot.points[spot.i]
           c == compare_rates(spot.naic, point, answer, spot.source_date)
           compared == Append(spot.compared,
                              [point |-> point, answer |-> answer, fetched |-> c.fetched,
                               changed |-> c.changed,
                               as_of |-> get_db_rate_by_date(point.region_id, point.gender,
                                             point.tobacco, point.age, spot.naic, point.plan,
                                             spot.source_date)])
       IN spot' = IF c.changed THEN SpotDone(TRUE, spot.points, compared)
                  ELSE IF spot.i = Len(spot.points) THEN SpotDone(FALSE, spot.points, compared)
                  ELSE [spot EXCEPT !.i = spot.i + 1, !.compared = compared]
    /\ obs' = [op |-> "compare_rates"]
    /\ UNCHANGED <<build_vars, source, key_rate_store, permits, task, request>>

\* A quote of the source for a sample point.
SpotQuote(month, effective_date) ==
    [SourceQuote("n1", effective_date, FALSE) EXCEPT !.month = month]

\* What fetch_quote may do for a sample point: raise, return nothing, return a
\* quote with the rate of its day (dated either way), or one with another rate.
Answers ==
    {[raised |-> TRUE, quotes |-> <<>>], [raised |-> FALSE, quotes |-> <<>>]}
    \cup {[raised |-> FALSE, quotes |-> <<SpotQuote(10000 + 100 * e.day, e)>>] : e \in LookupDates}
    \cup {[raised |-> FALSE, quotes |-> <<SpotQuote(10001, DateStr(1, NoTime))>>]}

\* Rows of the cache for the sample points: every date string for plan G of
\* region 1, one row for each other point.
SpotRows ==
    LookupRows
    \cup {[Row(1, 65, "n1", 10100, 9100, DateStr(1, NoTime)) EXCEPT !.plan = "N"]}
    \cup {[Row(2, 65, "n1", 10100, 9100, DateStr(1, NoTime)) EXCEPT !.plan = plan] :
             plan \in {"G", "N"}}

SpotSetup ==
    /\ region_metadata = {}
    /\ \E regions \in {<<{"z1"}>>, <<{"z1"}, {"z2"}>>} :
          SaveRegionData("s1", "n1", regions, "zip5", 0)

SpotSave ==
    \E r \in SpotRows :
        /\ spot.pc # "running"
        /\ Cardinality(rate_store) < MaxStoreRows
        /\ SaveRates(<<r>>)

SpotCheckStart ==
    \E d \in 1..MaxDay, demographics \in Samples, db_error \in BOOLEAN :
        SpotStart("s1", "n1", DateStr(d, NoTime), DateStr(MaxDay, NoTime), demographics, db_error)

SpotCheckStep == \E answer \in Answers : SpotStep(answer)

NextSpot == SpotSetup \/ SpotSave \/ SpotCheckStart \/ SpotCheckStep

SpecSpot == Init /\ [][NextSpot]_vars

\* The source's answer for a sample point differs from the row the cache holds
\* for the point as of source_date, in rate or in the day of the effective date.
PointDiffers(c) ==
    /\ c.as_of # {}
    /\ ~c.answer.raised
    /\ \E r \in c.as_of : \E i \in DOMAIN api_rates("n1", c.answer.quotes) :
          \/ api_rates("n1", c.answer.quotes)[i].rate # r.rate
          \/ CastDate(api_rates("n1", c.answer.quotes)[i].effective_date)
                # CastDate(r.effective_date)

\* The source's answer for a sample point was fetched and equals the row the
\* cache holds for the point as of source_date, in rate and in the day of the
\* effective date.
PointMatches(c) ==
    /\ c.fetched
    /\ c.as_of # {}
    /\ ~c.answer.raised
    /\ api_rates("n1", c.answer.quotes) # <<>>
    /\ \A r \in c.as_of : \A i \in DOMAIN api_rates("n1", c.answer.quotes) :
          /\ api_rates("n1", c.answer.quotes)[i].rate = r.rate
          /\ CastDate(api_rates("n1", c.answer.quotes)[i].effective_date)
                = CastDate(r.effective_date)

\* C12: a sample point whose answer differs from the cached rate as of
\* source_date ends the check with True, whatever the points before it did,
\* and it is the last point that was compared: nothing is fetched after it.
C12_AnyDifferenceIsChange ==
    spot.pc \in {"running", "done"} =>
        \A j \in DOMAIN spot.compared :
            PointDiffers(spot.compared[j])
            => /\ spot.pc = "done"
               /\ spot.result = TRUE
               /\ j = Len(spot.compared)

\* The early exit alone: only the last compared point can have been found
\* changed, and then the check has ended with True.
EarlyExit ==
    spot.pc \in {"running", "done"} =>
        \A j \in DOMAIN spot.compared :
            spot.compared[j].changed
            => /\ spot.pc = "done"
               /\ spot.result = TRUE
               /\ j = Len(spot.compared)

\* C13: the check ends with False only if there were sample points and every
\* one of them was fetched and matched the cached rate as of source_date in
\* rate and in effective date.
C13_UnchangedOnlyIfAllMatch ==
    (spot.pc = "done" /\ spot.result = FALSE) =>
        /\ spot.points # <<>>
        /\ Len(spot.compared) = Len(spot.points)
        /\ \A j \in DOMAIN spot.compared : PointMatches(spot.compared[j])

-----------------------------------------------------------------------------
(* The two lookups by date side by side: _get_db_rate of the spot checker and
   get_most_recent_effective_date_query of the facade on one rate cache *)

\* Both lookups are run for the key of the stored rows and one date.
LookupBoth(effective_date) ==
    /\ obs' = [op |-> "_get_db_rate", effective_date |-> effective_date,
               result |-> get_db_rate(1, "M", 0, 65, "n1", "G", effective_date),
               facade |-> get_most_recent_effective_date_query(rate_store, 1, "M", 0, 65,
                                                               "n1", "G", "s1", effective_date)]
    /\ UNCHANGED <<rate_regions, region_metadata, region_mapping, rate_store,
                   processed_data, correction_log, next_uuid, unit>>
    /\ UNCHANGED other_vars

LookupCompare == \E e \in LookupDates : LookupBoth(e)

NextSameRow == LookupSetup \/ LookupSave \/ LookupCompare

SpecSameRow == Init /\ [][NextSameRow]_vars

\* C36: for every content of the rate cache and every plain date asked for,
\* _get_db_rate selects the row that get_most_recent_effective_date_query
\* selects for the same key, also when stored dates carry a time of day.
C36_SameRowAsFacade ==
    (obs.op = "_get_db_rate" /\ obs.effective_date.time = NoTime)
        => obs.result = obs.facade

\* The two lookups agree as long as no stored row of the requested day
\* carries a time of day.
SameRowOnPlainDates ==
    (/\ obs.op = "_get_db_rate"
     /\ obs.effective_date.time = NoTime
     /\ \A r \in rate_store :
           r.effective_date.day = obs.effective_date.day => r.effective_date.time = NoTime)
        => obs.result = obs.facade

\* The facade found the row of the requested day, stored with a time of day,
\* and _get_db_rate found an older row.
OlderRowCompared ==
    /\ obs.op = "_get_db_rate"
    /\ obs.effective_date.time = NoTime
    /\ \E f \in obs.facade, r \in obs.result :
          /\ f.effective_date.day = obs.effective_date.day
          /\ r.effective_date.day < obs.effective_date.day

-----------------------------------------------------------------------------
(* The key-based rate store of build_db_new.py and its copy-forward *)

\* The keys 'state:naic:group' of rate_store in build_db_new.py.
StoreKeys == {[state |-> "s1", naic |-> "n1", group |-> 1],
              [state |-> "s1", naic |-> "n1", group |-> 2],
              [state |-> "s1", naic |-> "n2", group |-> 1]}

\* Effective dates as the 'YYYY-MM-DD' text of the key-based store.
KeyDates == {[month |-> 1, day |-> 1], [month |-> 2, day |-> 1], [month |-> 2, day |-> 15]}

\* The demographic labels of a stored value and the rates under a label.
Labels == {"M:0:65:G", "F:0:65:G"}
KeyRates == {[rate |-> 10000, discount_rate |-> 9000], [rate |-> 11000, discount_rate |-> 9900]}

\* The value of one key: a JSON object from demographic labels to rates.  A
\* fetch gives every label the rates of one schedule, or one label only.
KeyValues == {[l \in Labels |-> r] : r \in KeyRates}
                 \cup {[l \in {"M:0:65:G"} |-> [rate |-> 11000, discount_rate |-> 9900]]}

\* No row: what fetchone() gives _get_rate.
NoValue == [l \in {} |-> 0]

\* json_patch(value, patch) on objects whose members are not objects: the
\* members of the patch replace those of the value.
json_patch(value, patch) ==
    [l \in DOMAIN value \cup DOMAIN patch |-> IF l \in DOMAIN patch THEN patch[l] ELSE value[l]]

\* INSERT OR REPLACE INTO rate_store (key, effective_date, value): the primary
\* key is (key, effective_date).
insert_or_replace(store, rows) ==
    {r \in store : ~\E n \in rows : n.key = r.key /\ n.effective_date = r.effective_date}
        \cup rows

\* MedicareSupplementRateDB._set_rate
set_rate(store, key, value, effective_date) ==
    LET old == {r \in store : r.key = key /\ r.effective_date = effective_date}
        new == IF old = {} THEN value
               ELSE json_patch((CHOOSE r \in old : TRUE).value, value)
    IN insert_or_replace(store, {[key |-> key, effective_date |-> effective_date, value |-> new]})

\* MedicareSupplementRateDB._get_rate: the row of exactly that date.
get_rate(store, key, effective_date) ==
    LET found == {r \in store : r.key = key /\ r.effective_date = effective_date}
    IN IF found = {} THEN NoValue ELSE (CHOOSE r \in found : TRUE).value

\* MedicareSupplementRateDB.get_rates_for_date: key LIKE 'state:naic:%'.
get_rates_for_date(store, state, naic, effective_date) ==
    {r \in store : /\ r.key.state = state /\ r.key.naic = naic
                   /\ r.effective_date = effective_date
                   /\ r.value # NoValue}

\* copy_rates with INSERT OR IGNORE: a row the target date already has stays.
copy_rates_insert_or_ignore(store, state, naic, source_date, target_date) ==
    LET source_rates == get_rates_for_date(store, state, naic, source_date)
    IN [store |-> store \cup
                    {[key |-> r.key, effective_date |-> target_date, value |-> r.value]
                        : r \in {x \in source_rates :
                                   get_rate(store, x.key, target_date) = NoValue}},
        copied |-> source_rates # {}]

\* MedicareSupplementRateDB.copy_rates: False and no write when the source
\* date has no row, else every row of the source date is written at the target.
copy_rates(store, state, naic, source_date, target_date) ==
    LET source_rates == get_rates_for_date(store, state, naic, source_date)
    IN IF source_rates = {} THEN [store |-> store, copied |-> FALSE]
       ELSE [store |-> insert_or_replace(store,
                          {[key |-> r.key, effective_date |-> target_date, value |-> r.value]
                              : r \in source_rates}),
             copied |-> TRUE]

\* date_utils.validate_effective_date: 'YYYY-MM-DD' and the first of a month.
validate_effective_date(date) == date.day = 1

\* date_utils.copy_effective_date_data: one INSERT OR REPLACE ... SELECT over
\* every key of the store; ValueError before any write for other dates.
copy_effective_date_data(store, from_date, to_date) ==
    IF ~validate_effective_date(from_date) \/ ~validate_effective_date(to_date)
    THEN [store |-> store, copied |-> FALSE]
    ELSE [store |-> insert_or_replace(store,
                       {[key |-> r.key, effective_date |-> to_date, value |-> r.value]
                           : r \in {x \in store : x.effective_date = from_date}}),
          copied |-> TRUE]

\* _save_results after a fetch of the quotes of one group: one request to the
\* source, then _set_rate.
KeySetRate(key, value, effective_date) ==
    /\ Cardinality(set_rate(key_rate_store, key, value, effective_date)) <= MaxStoreRows
    /\ key_rate_store' = set_rate(key_rate_store, key, value, effective_date)
    /\ obs' = [op |-> "set_rate", requests |-> 1]
    /\ UNCHANGED <<build_vars, source, spot, permits, task, request>>

\* copy_rates(state, naic, source_date, target_date) as copy_data_forward.py
\* calls it; it reads and writes the store and never touches self.cr.
CopyRates(state, naic, source_date, target_date) ==
    LET done == copy_rates(key_rate_store, state, naic, source_date, target_date)
    IN /\ Cardinality(done.store) <= MaxStoreRows
       /\ key_rate_store' = done.store
       /\ obs' = [op |-> "copy_rates", state |-> state, naic |-> naic,
                  source_date |-> source_date, target_date |-> target_date,
                  copied |-> done.copied, requests |-> 0,
                  replaced |-> {r.key : r \in key_rate_store \ done.store}]
       /\ UNCHANGED <<build_vars, source, spot, permits, task, request>>

\* copy_effective_date_data(db, from_date, to_date)
CopyEffectiveDateData(from_date, to_date) ==
    LET done == copy_effective_date_data(key_rate_store, from_date, to_date)
    IN /\ Cardinality(done.store) <= MaxStoreRows
       /\ key_rate_store' = done.store
       /\ obs' = [op |-> "copy_effective_date_data",
                  source_date |-> from_date, target_date |-> to_date,
                  copied |-> done.copied, requests |-> 0]
       /\ UNCHANGED <<build_vars, source, spot, permits, task, request>>

CopySet == \E key \in StoreKeys, value \in KeyValues, effective_date \in KeyDates :
              KeySetRate(key, value, effective_date)

CopyForward == \E naic \in NAICS, source_date \in KeyDates, target_date \in KeyDates :
                  CopyRates("s1", naic, source_date, target_date)

CopyAllForward == \E from_date \in KeyDates, to_date \in KeyDates :
                     CopyEffectiveDateData(from_date, to_date)

NextCopy == CopySet \/ CopyForward \/ CopyAllForward

SpecCopy == Init /\ [][NextCopy]_vars

\* The keys a copy-forward step covers: those of the carrier and jurisdiction
\* for copy_rates, every key for copy_effective_date_data.
CopiedKeys(o) ==
    IF o.op = "copy_rates"
    THEN {k \in StoreKeys : k.state = o.state /\ k.naic = o.naic}
    ELSE StoreKeys

-----------------------------------------------------------------------------
(* The adapter: AsyncCSGRequest.get, one step per request sent to the source *)

\* What one client.get can come to: a response with a status code, or an
\* exception of httpx raised in place of a response.
Outcomes == {"200", "403", "404", "500", "ReadTimeout", "ConnectTimeout"}

\* The call has returned or raised.
GetDone(retry, attempt, log, result) ==
    [pc |-> "done", retry |-> retry, attempt |-> attempt, log |-> log, result |-> result]

\* except ReadTimeout with a loop that takes one turn more than retry.
except_ReadTimeout_one_more(r, outcome) ==
    IF outcome # "ReadTimeout"
    THEN GetDone(r.retry, r.attempt,
                 Append(r.log, [attempt |-> r.attempt, event |-> outcome]),
                 IF outcome = "ConnectTimeout" THEN "ConnectTimeout" ELSE "HTTPStatusError")
    ELSE IF r.attempt <= r.retry
    THEN [pc |-> "first", retry |-> r.retry, attempt |-> r.attempt + 1,
          log |-> Append(r.log, [attempt |-> r.attempt, event |-> outcome])]
    ELSE GetDone(r.retry, r.attempt,
                 Append(r.log, [attempt |-> r.attempt, event |-> outcome]), "Exception")

\* except ReadTimeout: the next turn of for _ in range(retry), or after the
\* last turn raise Exception("Request failed after {retry} attempts").
except_ReadTimeout(r, outcome) ==
    IF outcome # "ReadTimeout"
    THEN GetDone(r.retry, r.attempt,
                 Append(r.log, [attempt |-> r.attempt, event |-> outcome]),
                 IF outcome = "ConnectTimeout" THEN "ConnectTimeout" ELSE "HTTPStatusError")
    ELSE IF r.attempt < r.retry
    THEN [pc |-> "first", retry |-> r.retry, attempt |-> r.attempt + 1,
          log |-> Append(r.log, [attempt |-> r.attempt, event |-> outcome])]
    ELSE GetDone(r.retry, r.attempt,
                 Append(r.log, [attempt |-> r.attempt, event |-> outcome]), "Exception")

\* One client.get of the call r and what follows it up to the next one: the
\* 403 branch with reset_token (set_token taken to succeed), raise_for_status,
\* the return and the except clause.
get_step(r, outcome) ==
    IF outcome = "200"
    THEN GetDone(r.retry, r.attempt,
                 Append(r.log, [attempt |-> r.attempt, event |-> outcome]), "ok")
    ELSE IF outcome = "403" /\ r.pc = "first"
    THEN [pc |-> "resend", retry |-> r.retry, attempt |-> r.attempt,
          log |-> r.log \o <<[attempt |-> r.attempt, event |-> outcome],
                             [attempt |-> r.attempt, event |-> "reset_token"]>>]
    ELSE except_ReadTimeout(r, outcome)

\* get(uri, params, retry) is called.
GetStart(retry) ==
    /\ request.pc \in {"idle", "done"}
    /\ request' = [pc |-> "first", retry |-> retry, attempt |-> 1, log |-> <<>>]
    /\ obs' = [op |-> "get", retry |-> retry]
    /\ UNCHANGED <<build_vars, source, spot, key_rate_store, permits, task>>

\* The source answers the request in flight.
GetSend(outcome) ==
    /\ request.pc \in {"first", "resend"}
    /\ request' = get_step(request, outcome)
    /\ obs' = [op |-> "client.get", outcome |-> outcome]
    /\ UNCHANGED <<build_vars, source, spot, key_rate_store, permits, task>>

GetCall == \E retry \in 1..MaxRetry : GetStart(retry)

GetAnswer == \E outcome \in Outcomes : GetSend(outcome)

NextGet == GetCall \/ GetAnswer

SpecGet == Init /\ [][NextGet]_vars

\* The errors the specification calls transient: timeouts, 5xx, and 403.
Transient == {"ReadTimeout", "ConnectTimeout", "500", "403"}

\* On a 403 to the first request of an attempt the token is refreshed once,
\* then the request is sent again; the token is refreshed at no other point.
RefreshOnce ==
    request.pc \in {"first", "resend", "done"} =>
        \A i \in DOMAIN request.log :
            /\ request.log[i].event = "reset_token"
               => /\ i > 1 /\ request.log[i - 1].event = "403"
                  /\ (i > 2 => request.log[i - 2].event # "403"
                               \/ request.log[i - 2].attempt # request.log[i].attempt)
            /\ (request.log[i].event = "403" /\ i < Len(request.log))
               => /\ request.log[i + 1].event = "reset_token"
                  /\ (i + 2 <= Len(request.log)
                      => request.log[i + 2].event # "reset_token")

\* A call that failed on a read timeout has used every attempt.
ReadTimeoutRetried ==
    (request.pc = "done" /\ request.log[Len(request.log)].event = "ReadTimeout")
        => request.attempt = request.retry

\* C16: a request that fails with a transient error (timeout, 5xx, 403) is
\* attempted again until it succeeds or the attempt count retry is reached, and
\* on a 403 the token is refreshed once before the request is sent again.
C16_TransientRetried ==
    /\ (request.pc = "done" /\ request.result # "ok"
        /\ request.log[Len(request.log)].event \in Transient)
       => request.attempt = request.retry
    /\ RefreshOnce

\* Every client.get ends: httpx answers or raises within TIMEOUT seconds.
SpecGetLive == SpecGet /\ WF_vars(GetAnswer)

\* The requests of the call that were sent to the uri so far.
RequestsSent == Cardinality({i \in DOMAIN request.log : request.log[i].event # "reset_token"})

\* The ways a call of get ends: the parsed response, or an exception.
GetResults == {"ok", "HTTPStatusError", "ConnectTimeout", "Exception"}

-----------------------------------------------------------------------------
(* Discovery in isolation: calc_naic_map_combined2 against any source *)

\* What the source can report for the ZIP codes of a state, for one carrier:
\* ZIP groups that partition the state; one ZIP group reported at every ZIP
\* code, the codes outside it included; one county per group; one group of
\* both counties; nothing at z3; nothing but at z1; a quote with both lists
\* filled; a quote with both lists empty; nothing at all.
Behaviours ==
    {[z \in ZIPS |-> IF z = "z3" THEN Group({"z3"}, {}) ELSE Group({"z1", "z2"}, {})],
     [z \in ZIPS |-> Group({"z3"}, {})],
     [z \in ZIPS |-> IF z = "z3" THEN Group({}, {"c2"}) ELSE Group({}, {"c1"})],
     [z \in ZIPS |-> Group({}, {"c1", "c2"})],
     [z \in ZIPS |-> IF z = "z3" THEN <<>> ELSE Group({"z1", "z2"}, {})],
     [z \in ZIPS |-> IF z = "z1" THEN Group({"z1"}, {}) ELSE <<>>],
     [z \in ZIPS |-> Group(ZIPS, COUNTIES)],
     [z \in ZIPS |-> Group({}, {})],
     [z \in ZIPS |-> <<>>]}

\* The (state, carrier) pairs discovery is run for: an ordinary pair and the
\* two pairs of the model that the workarounds name.
DiscoverPairs ==
    {[state |-> "s1", naic |-> "n1"],
     [state |-> "WY", naic |-> "82538"],
     [state |-> "LA", naic |-> "73288"]}

\* The source changes what it reports for a carrier.
SourceChange(naic, behaviour) ==
    /\ source[naic] # behaviour
    /\ source' = [source EXCEPT ![naic] = behaviour]
    /\ obs' = [op |-> "source"]
    /\ UNCHANGED <<build_vars, spot, key_rate_store, permits, task, request>>

\* calc_naic_map_combined2(state, naic) runs against the source as it is.
Discover(state, naic, probe, state_zips, state_counties) ==
    LET found == calc_naic_map_combined2(state, naic, probe, state_zips, state_counties)
    IN /\ obs' = [op |-> "calc_naic_map_combined2", state |-> state, naic |-> naic,
                  first_result |-> fetch_quote(naic, probe),
                  regions |-> found.regions, mapping_type |-> found.mapping_type,
                  processed |-> found.processed, requests |-> found.requests]
       /\ UNCHANGED <<build_vars, other_vars>>

DiscoverSource ==
    \E pair \in DiscoverPairs, behaviour \in Behaviours : SourceChange(pair.naic, behaviour)

DiscoverRun ==
    \E pair \in DiscoverPairs, probe \in ZIPS :
      \E state_zips \in Orders(ZIPS), state_counties \in Orders(COUNTIES) :
        Discover(pair.state, pair.naic, probe, state_zips, state_counties)

NextDiscover == DiscoverSource \/ DiscoverRun

SpecDiscover == Init /\ [][NextDiscover]_vars

\* C17: the regions discovery returns are pairwise disjoint, and every
\* location it marked resolved belongs to exactly one of them.
C17_RegionsPartition ==
    obs.op = "calc_naic_map_combined2" =>
        /\ \A i, j \in DOMAIN obs.regions :
              i # j => obs.regions[i] \cap obs.regions[j] = {}
        /\ \A l \in obs.processed :
              Cardinality({i \in DOMAIN obs.regions : l \in obs.regions[i]}) = 1

\* Every location of a returned region was marked resolved or is part of a
\* fixed group of a workaround.
RegionsAreResolved ==
    obs.op = "calc_naic_map_combined2" =>
        \A i \in DOMAIN obs.regions : obs.regions[i] \subseteq obs.processed \cup LA_group1

\* The override table of the discovery code: the pair that is skipped and the
\* pairs with fixed groups.
SkipEntry(state, naic) == state = "WY" /\ naic = "82538"
FixedGroups(state, naic) == IF state = "LA" /\ naic \in HumanaLA THEN <<LA_group1>> ELSE <<>>

\* C18: for a pair of the override table the table is consulted before any
\* probe is sent: a skip entry gives no region with no request to the source,
\* and a fixed-groups entry gives the regions of the table with no request.
C18_OverrideBeforeProbe ==
    obs.op = "calc_naic_map_combined2" =>
        /\ SkipEntry(obs.state, obs.naic)
           => obs.regions = <<>> /\ obs.requests = 0
        /\ FixedGroups(obs.state, obs.naic) # <<>>
           => /\ Range(obs.regions) = Range(FixedGroups(obs.state, obs.naic))
              /\ obs.requests = 0

\* The part of C18 about the result of a skip entry: no region is returned.
SkipYieldsNothing ==
    (obs.op = "calc_naic_map_combined2" /\ SkipEntry(obs.state, obs.naic))
        => obs.regions = <<>>

\* The first probe of calc_naic_map_combined2 is sent for every pair.
FirstProbeAlwaysSent ==
    obs.op = "calc_naic_map_combined2" => obs.requests >= 1

\* C28: an empty first response ends discovery with no region and no mapping
\* kind; otherwise the kind is zip5 if the ZIP list of the first response is
\* populated, else county if its county list is populated, else there is no
\* region and no mapping kind.
C28_KindFromFirstResponse ==
    obs.op = "calc_naic_map_combined2" =>
        IF obs.first_result = <<>>
        THEN obs.regions = <<>> /\ obs.mapping_type = "None"
        ELSE IF obs.first_result[1].zip5 # {} THEN obs.mapping_type = "zip5"
        ELSE IF obs.first_result[1].county # {} THEN obs.mapping_type = "county"
        ELSE obs.regions = <<>> /\ obs.mapping_type = "None"

\* A discovery whose first response had both lists populated and went by
\* ZIP code.
C28_Witness ==
    /\ obs.op = "calc_naic_map_combined2"
    /\ obs.first_result # <<>>
    /\ obs.first_result[1].zip5 # {} /\ obs.first_result[1].county # {}
    /\ obs.mapping_type = "zip5" /\ obs.regions # <<>>

\* The other cases of C28 happen as well: an empty first response, a first
\* response with counties only, and one with neither list populated.
EmptyFirstResponse ==
    obs.op = "calc_naic_map_combined2" /\ obs.first_result = <<>>
CountyFirstResponse ==
    /\ obs.op = "calc_naic_map_combined2" /\ obs.first_result # <<>>
    /\ obs.first_result[1].zip5 = {} /\ obs.mapping_type = "county" /\ obs.regions # <<>>
UnsupportedFirstResponse ==
    /\ obs.op = "calc_naic_map_combined2" /\ obs.first_result # <<>>
    /\ obs.first_result[1].zip5 = {} /\ obs.first_result[1].county = {}

\* A discovery by ZIP code whose loop found no group: the regions are the
\* group of the first response alone, so every probe of the loop came back
\* empty, one after the other.
LoopProbesAllEmpty ==
    /\ obs.op = "calc_naic_map_combined2"
    /\ obs.mapping_type = "zip5"
    /\ Len(obs.regions) = 1
    /\ \A z \in ZIPS \ obs.processed : source[obs.naic][z] = <<>>

\* C27: discovery stops probing a pair once max_consecutive_empty_results
\* probes in a row came back empty: a loop whose probes were all empty has
\* sent no more than that many of them.
C27_StopsAtFailureBudget ==
    LoopProbesAllEmpty => obs.requests - 1 <= max_consecutive_empty_results

\* What calc_naic_map_zip does instead: every ZIP code the loop left
\* unresolved was probed, however many of the probes before it were empty.
ProbesEveryUnresolved ==
    (obs.op = "calc_naic_map_combined2" /\ obs.mapping_type = "zip5" /\ obs.regions # <<>>)
        => obs.requests - 1 >= Cardinality(ZIPS \ obs.processed)

\* A discovery that went past the budget: two empty probes in a row and
\* nothing else in the loop.
PastFailureBudget ==
    LoopProbesAllEmpty /\ obs.requests - 1 > max_consecutive_empty_results

-----------------------------------------------------------------------------
(* Two units against one database: process_carrier_state as a function *)

\* The database as a value: the tables and the counter of fresh identifiers.
DB ==
    [meta |-> region_metadata, regions |-> rate_regions, mapping |-> region_mapping,
     store |-> rate_store, pd |-> processed_data, uuid |-> next_uuid]

\* The database after construction.
EmptyDB == [meta |-> {}, regions |-> {}, mapping |-> {}, store |-> {}, pd |-> {}, uuid |-> 1]

\* is_already_processed(state, naic, effective_date) on the database db.
is_already_processed_in(db, state, naic, effective_date) ==
    LET result == {p \in db.pd : /\ p.state = state /\ p.naic = naic
                                 /\ p.effective_date = effective_date /\ p.success}
        has_rate(dates) ==
            \E r \in db.store :
                /\ \E m \in db.mapping : r.region_id = m.region_id /\ r.naic = m.naic
                /\ r.naic = naic /\ r.state = state /\ r.effective_date \in dates
    IN IF result = {} THEN FALSE
       ELSE LET api_dates == (CHOOSE p \in result : TRUE).api_effective_date
            IN IF api_dates # <<>>
               THEN \A i \in DOMAIN api_dates : has_rate({api_dates[i]})
               ELSE has_rate({r.effective_date : r \in db.store})

\* process_carrier_state up to its first await, on the database db.
step_start(db, u, in) ==
    [db |-> db,
     st |-> IF is_already_processed_in(db, u.state, u.naic, u.effective_date)
            THEN Finished("AlreadyProcessed")
            ELSE IF in.dry_run THEN Finished("DryRun")
            ELSE [pc |-> "Discovering", regions_to_process |-> <<>>, mapping_type |-> ""]]

\* process_carrier_state from the return of get_rate_regions to the await of
\* the first fetch_rates task, on the database db.
step_discovery(db, u, in) ==
    LET found == get_rate_regions(u.state, u.naic, in.probe, in.state_zips, in.state_counties)
        saved == save_region_data([meta |-> db.meta, regions |-> db.regions,
                                   mapping |-> db.mapping],
                                  u.state, u.naic, found.regions, found.mapping_type,
                                  db.uuid, in.fail_at)
        unique_region_ids == UniqueLoop(saved.db.meta, saved.region_ids, 1, <<>>, {})
        processed_regions ==
            {r.region_id : r \in {x \in db.store : /\ x.naic = u.naic /\ x.state = u.state
                                                   /\ x.effective_date = u.effective_date}}
        regions_to_process == SelectSeq(unique_region_ids, LAMBDA r : r \notin processed_regions)
        failed == mark_processed(db.pd, u.state, u.naic, u.effective_date, FALSE, <<>>)
        stored == [db EXCEPT !.meta = saved.db.meta, !.regions = saved.db.regions,
                             !.mapping = saved.db.mapping, !.uuid = saved.uuid]
    IN IF found.regions = <<>>
       THEN [db |-> [db EXCEPT !.pd = failed], st |-> Finished("Failed")]
       ELSE IF saved.region_ids = <<>>
       THEN [db |-> [stored EXCEPT !.pd = failed], st |-> Finished("Failed")]
       ELSE IF regions_to_process = <<>>
       THEN [db |-> [stored EXCEPT !.pd = mark_processed(db.pd, u.state, u.naic,
                                                         u.effective_date, TRUE, <<>>)],
             st |-> Finished("Succeeded")]
       ELSE [db |-> stored,
             st |-> [pc |-> "Pricing", regions_to_process |-> regions_to_process,
                     mapping_type |-> found.mapping_type]]

\* process_carrier_state from the results of the fetch_rates tasks to its
\* return, on the database db; responses[i] answers the i-th region.
step_pricing(db, st, u, in) ==
    LET responses == [i \in DOMAIN st.regions_to_process |-> in.responses[i]]
        fetched == PricingLoop(u, st.regions_to_process, responses, 1, <<>>, {})
        saved == save_rates(db.store, fetched.all_rates)
        store == IF fetched.all_rates = <<>> THEN db.store ELSE saved.store
        api_effective_dates == fetched.api_effective_dates
        rate_count ==
            IF api_effective_dates # {}
            THEN Cardinality({r \in store : /\ r.naic = u.naic /\ r.state = u.state
                                            /\ r.effective_date # NULL
                                            /\ r.effective_date \in api_effective_dates})
            ELSE Cardinality({r \in store : r.naic = u.naic /\ r.state = u.state})
        raises == NULL \in api_effective_dates
    IN IF rate_count = 0 \/ raises
       THEN [db |-> [db EXCEPT !.store = store,
                               !.pd = mark_processed(db.pd, u.state, u.naic,
                                                     u.effective_date, FALSE, <<>>)],
             st |-> Finished("Failed")]
       ELSE [db |-> [db EXCEPT !.store = store,
                               !.pd = mark_processed(db.pd, u.state, u.naic, u.effective_date,
                                                     TRUE, SortDates(api_effective_dates))],
             st |-> Finished("Succeeded")]

\* The next step of process_carrier_state for a unit at position st; a unit
\* that has returned takes no further step.
step(db, st, u, in) ==
    IF st.pc = "Pending" THEN step_start(db, u, in)
    ELSE IF st.pc = "Discovering" THEN step_discovery(db, u, in)
    ELSE IF st.pc = "Pricing" THEN step_pricing(db, st, u, in)
    ELSE [db |-> db, st |-> st]

\* What one call of process_carrier_state is given from outside: the dry_run
\* flag, the shuffles of discovery, the outcome of the region save and the
\* answers of the source to the pricing requests.
StepInput(dry_run, probe, fail_at, responses) ==
    [dry_run |-> dry_run, probe |-> probe, fail_at |-> fail_at, responses |-> responses,
     state_zips |-> <<"z1", "z2", "z3">>, state_counties |-> <<"c1", "c2">>]

\* Each step of the build is the step function applied to the database.
StepsAgree ==
    [][LET u == obs'.u
           after == [db |-> DB', st |-> unit'[u]]
       IN /\ obs'.op = "start"
             => step(DB, unit[u], u, StepInput(obs'.dry_run, "z1", 0, <<>>)) = after
          /\ obs'.op = "discovery"
             => \E probe \in ZIPS, fail_at \in {0, 1} :
                   step(DB, unit[u], u, StepInput(FALSE, probe, fail_at, <<>>)) = after
          /\ obs'.op = "pricing"
             => step(DB, unit[u], u, StepInput(FALSE, "z1", 0, obs'.responses)) = after]_vars

\* The two units of the build: same carrier and state, different dates.
UnitA == [state |-> "s1", naic |-> "n1", effective_date |-> DateStr(1, NoTime)]
UnitB == [state |-> "s1", naic |-> "n1", effective_date |-> DateStr(2, NoTime)]

\* The orders in which the three steps of UnitA (1) and of UnitB (2) can be
\* taken by the event loop; the first and the last are the two runs one after
\* the other.
Schedules ==
    {sch \in [1..6 -> {1, 2}] : Cardinality({i \in 1..6 : sch[i] = 1}) = 3}

SequentialAB == <<1, 1, 1, 2, 2, 2>>
SequentialBA == <<2, 2, 2, 1, 1, 1>>

\* The database after the steps schedule[i..] of the two units; next is the
\* outcome of step schedule[i], taken by the unit the schedule names.
RECURSIVE RunSchedule(_, _, _, _, _, _, _)
RECURSIVE RunRest(_, _, _, _, _, _, _)
RunRest(schedule, i, next, stA, stB, inA, inB) ==
    IF schedule[i] = 1
    THEN RunSchedule(schedule, i + 1, next.db, next.st, stB, inA, inB)
    ELSE RunSchedule(schedule, i + 1, next.db, stA, next.st, inA, inB)

RunSchedule(schedule, i, db, stA, stB, inA, inB) ==
    IF i > Len(schedule) THEN db
    ELSE RunRest(schedule, i,
                 step(db, IF schedule[i] = 1 THEN stA ELSE stB,
                      IF schedule[i] = 1 THEN UnitA ELSE UnitB,
                      IF schedule[i] = 1 THEN inA ELSE inB),
                 stA, stB, inA, inB)

\* The two units run from the empty database.
RunUnits(schedule, inA, inB) ==
    RunSchedule(schedule, 1, EmptyDB, Finished("Pending"), Finished("Pending"), inA, inB)

\* A database with each region identifier replaced by the hash of its region:
\* the region hashes, the location mappings, the rate rows and the records.
Canonical(db) ==
    LET hash_of(region_id) ==
            IF \E m \in db.meta : m.region_id = region_id
            THEN (CHOOSE m \in db.meta : m.region_id = region_id).region_hash
            ELSE <<>>
    IN [hashes |-> {<<m.naic, m.state, m.region_hash>> : m \in db.meta},
        mapping |-> {[zip_code |-> m.zip_code, county |-> m.county, naic |-> m.naic,
                      region |-> hash_of(m.region_id)] : m \in db.mapping},
        store |-> {[key |-> <<hash_of(r.region_id), r.gender, r.tobacco, r.age, r.naic,
                              r.plan, r.effective_date, r.state>>,
                    rate |-> r.rate, discount_rate |-> r.discount_rate] : r \in db.store},
        pd |-> db.pd]

\* The outcome of the two units under each of the given schedules.
RunSchedules(schedules, inA, inB) ==
    [sch \in schedules |-> Canonical(RunUnits(sch, inA, inB))]

\* What a build of two units leaves to compare: the outcome under its schedule
\* beside those of the two runs one after the other.
Compared(schedule, probeA, probeB, responseA, responseB, outcome) ==
    [op |-> "process_two_units", schedule |-> schedule,
     probeA |-> probeA, probeB |-> probeB,
     responseA |-> responseA, responseB |-> responseB,
     final |-> outcome[schedule], ab |-> outcome[SequentialAB], ba |-> outcome[SequentialBA]]

\* Two units are processed under one schedule, each with its own shuffle and
\* its own answers of the source; the outcome is set beside those of the two
\* runs one after the other with the same shuffles and answers.
ProcessTwoUnits(schedule, probeA, probeB, responseA, responseB) ==
    /\ obs' = Compared(schedule, probeA, probeB, responseA, responseB,
                       RunSchedules({schedule, SequentialAB, SequentialBA},
                                    StepInput(FALSE, probeA, 0,
                                              [i \in 1..MaxRegionsPerSave |-> responseA]),
                                    StepInput(FALSE, probeB, 0,
                                              [i \in 1..MaxRegionsPerSave |-> responseB])))
    /\ UNCHANGED <<build_vars, other_vars>>

\* The database just constructed, with the shuffles of the two discoveries and
\* the answers of the source to the two units drawn.
InitCommute ==
    /\ rate_regions = {}
    /\ region_metadata = {}
    /\ region_mapping = {}
    /\ rate_store = {}
    /\ processed_data = {}
    /\ correction_log = <<>>
    /\ next_uuid = 1
    /\ unit = [u \in Units |-> Finished("Pending")]
    /\ \E probeA \in ZIPS, probeB \in ZIPS :
         \E responseA \in Responses("n1"), responseB \in Responses("n1") :
           obs = [op |-> "inputs", probeA |-> probeA, probeB |-> probeB,
                  responseA |-> responseA, responseB |-> responseB]
    /\ source = InitialSource
    /\ spot = [pc |-> "idle"]
    /\ key_rate_store = {}
    /\ permits = [global |-> MAX_CONNECTIONS, demographic |-> DemographicPermits]
    /\ task = [t \in Tasks |-> [pc |-> "idle", kind |-> "none", holds_global |-> FALSE]]
    /\ request = [pc |-> "idle"]

\* One build of the two units on a database just constructed, under any
\* schedule of their steps.
NextCommute ==
    /\ obs.op = "inputs"
    /\ \E schedule \in Schedules :
         ProcessTwoUnits(schedule, obs.probeA, obs.probeB, obs.responseA, obs.responseB)

SpecCommute == InitCommute /\ [][NextCommute]_vars

\* C19: two units with different keys commute: under every schedule of their
\* steps the final region hashes, location mappings, rate rows and processing
\* records are those of running the one and then the other, in either order.
C19_UnitsCommute ==
    obs.op = "process_two_units" => obs.final = obs.ab /\ obs.final = obs.ba

\* The part of the outcome that does not depend on the schedule: region
\* hashes and location mappings.
RegionsCommute ==
    obs.op = "process_two_units" =>
        /\ obs.final.hashes = obs.ab.hashes /\ obs.final.hashes = obs.ba.hashes
        /\ obs.final.mapping = obs.ab.mapping /\ obs.final.mapping = obs.ba.mapping

-----------------------------------------------------------------------------
(* The limiter: which requests of a build are sent under GLOBAL_SEMAPHORE *)

\* A task of the build that is not talking to the source.
Idle == [pc |-> "idle", kind |-> "none", holds_global |-> FALSE]

\* get_available_carriers and get_rate_regions: fetch_quote is awaited with no
\* semaphore around it.
SendUnguarded(t, kind) ==
    /\ task[t].pc = "idle"
    /\ task' = [task EXCEPT ![t] = [pc |-> "in_flight", kind |-> kind, holds_global |-> FALSE]]
    /\ obs' = [op |-> "send", t |-> t, kind |-> kind]
    /\ UNCHANGED <<build_vars, source, spot, key_rate_store, permits, request>>

\* fetch_and_process of fetch_rates: async with self.demographic_semaphore.
AcquireDemographic(t) ==
    /\ task[t].pc = "idle"
    /\ permits.demographic > 0
    /\ permits' = [permits EXCEPT !.demographic = @ - 1]
    /\ task' = [task EXCEPT ![t] = [pc |-> "demographic", kind |-> "pricing",
                                    holds_global |-> FALSE]]
    /\ obs' = [op |-> "acquire", t |-> t, kind |-> "pricing"]
    /\ UNCHANGED <<build_vars, source, spot, key_rate_store, request>>

\* async with GLOBAL_SEMAPHORE, then await self.cr.fetch_quote(**params).
AcquireGlobalAndSend(t) ==
    /\ task[t].pc = "demographic"
    /\ permits.global > 0
    /\ permits' = [permits EXCEPT !.global = @ - 1]
    /\ task' = [task EXCEPT ![t] = [pc |-> "in_flight", kind |-> "pricing",
                                    holds_global |-> TRUE]]
    /\ obs' = [op |-> "send", t |-> t, kind |-> "pricing"]
    /\ UNCHANGED <<build_vars, source, spot, key_rate_store, request>>

\* The answer (or the exception) arrives; the semaphores a task holds are
\* released on the way out of the async with blocks.
Receive(t) ==
    /\ task[t].pc = "in_flight"
    /\ permits' = IF task[t].kind = "pricing"
                  THEN [global |-> permits.global + 1, demographic |-> permits.demographic + 1]
                  ELSE permits
    /\ task' = [task EXCEPT ![t] = Idle]
    /\ obs' = [op |-> "receive", t |-> t, kind |-> task[t].kind]
    /\ UNCHANGED <<build_vars, source, spot, key_rate_store, request>>

LimiterProbe == \E t \in Tasks, kind \in {"availability", "discovery"} : SendUnguarded(t, kind)

LimiterEnter == \E t \in Tasks : AcquireDemographic(t)

LimiterSend == \E t \in Tasks : AcquireGlobalAndSend(t)

LimiterReceive == \E t \in Tasks : Receive(t)

NextLimiter == LimiterProbe \/ LimiterEnter \/ LimiterSend \/ LimiterReceive

SpecLimiter == Init /\ [][NextLimiter]_vars

\* The tasks with a request at the source.
InFlight == {t \in Tasks : task[t].pc = "in_flight"}

\* C20: every request to the source (availability probe, discovery probe or
\* pricing fetch) is in flight only while its task holds a permit of the
\* global limiter, so no more than MAX_CONNECTIONS requests are in flight.
C20_GlobalLimit ==
    /\ \A t \in InFlight : task[t].holds_global
    /\ Cardinality(InFlight) <= MAX_CONNECTIONS

\* The pricing fetches are sent under the global limiter and never exceed it.
PricingUnderLimit ==
    /\ \A t \in InFlight : task[t].kind = "pricing" => task[t].holds_global
    /\ Cardinality({t \in InFlight : task[t].kind = "pricing"}) <= MAX_CONNECTIONS
    /\ permits.global = MAX_CONNECTIONS - Cardinality({t \in Tasks : task[t].holds_global})

-----------------------------------------------------------------------------
(* The rate calculators: process_quote of the builder and
   process_filtered_quote of the quoting router, as functions of one quote *)

\* Bounds of the quotes handed to the calculators: the base rates in cents and
\* the number of age increases.
MaxBaseCents == 110
MaxIncreases == 2

\* The state after construction with obs holding the given value.
Constructed(o) ==
    /\ rate_regions = {}
    /\ region_metadata = {}
    /\ region_mapping = {}
    /\ rate_store = {}
    /\ processed_data = {}
    /\ correction_log = <<>>
    /\ next_uuid = 1
    /\ unit = [u \in Units |-> Finished("Pending")]
    /\ obs = o
    /\ source = InitialSource
    /\ spot = [pc |-> "idle"]
    /\ key_rate_store = {}
    /\ permits = [global |-> MAX_CONNECTIONS, demographic |-> DemographicPermits]
    /\ task = [t \in Tasks |-> [pc |-> "idle", kind |-> "none", holds_global |-> FALSE]]
    /\ request = [pc |-> "idle"]

\* The quotes of the source handed to a calculator: base age 65, a base rate
\* in cents, age increases and at most one discount in hundredths.
CalcQuotes ==
    {[SourceQuote("n1", DateStr(1, NoTime), FALSE)
         EXCEPT !.month = month, !.age_increases = incs, !.discounts = discounts] :
       month \in {10000} \cup (100..MaxBaseCents),
       incs \in {<<>>} \cup SeqsUpTo({3, 5}, MaxIncreases),
       discounts \in {<<>>, <<10>>}}

InitCalc == \E quote \in CalcQuotes : Constructed([op |-> "quote", quote |-> quote])

\* The builder turns the quote into rate records.
CalcProcessQuote ==
    /\ obs.op = "quote"
    /\ obs' = [op |-> "process_quote", quote |-> obs.quote,
               rows |-> process_quote(obs.quote, 1, "s1")]
    /\ UNCHANGED <<build_vars, other_vars>>

\* calculate_rate_with_increases: base_rate times the product of the first
\* age_diff multipliers, as the exact fraction n / d of a cent (no rounding);
\* 0 for an age below the base age.
RECURSIVE rate_multiplier(_, _, _)
rate_multiplier(age_increases, age_diff, i) ==
    IF i >= age_diff THEN [n |-> 1, d |-> 1]
    ELSE LET rest == rate_multiplier(age_increases, age_diff, i + 1)
         IN IF i < Len(age_increases)
            THEN [n |-> (100 + age_increases[i + 1]) * rest.n, d |-> 100 * rest.d]
            ELSE rest

calculate_rate_with_increases(base_rate, base_age, target_age, age_increases) ==
    IF target_age - base_age < 0 THEN [n |-> 0, d |-> 1]
    ELSE LET m == rate_multiplier(age_increases, target_age - base_age, 0)
         IN [n |-> base_rate * m.n, d |-> m.d]

\* process_filtered_quote for one requested age: no quote for a rate <= 0,
\* else the unrounded rate and the discounted rate rounded to the cent.
process_filtered_quote(quote_data, age) ==
    LET rate == calculate_rate_with_increases(quote_data.rate, quote_data.age, age,
                                              quote_data.age_increases)
        discount_mult == IF quote_data.discounts = <<>> THEN 100
                         ELSE 100 - quote_data.discounts[1]
    IN IF rate.n <= 0 THEN <<>>
       ELSE <<[age |-> age, gender |-> quote_data.gender, plan |-> quote_data.plan,
               tobacco |-> quote_data.tobacco, rate |-> rate,
               discount_rate |-> RoundHalfEven(rate.n * discount_mult, rate.d * 100)]>>

\* The router turns the quote into the quote of a requested age (base rates
\* up to MaxBaseCents: the exact fraction of a larger one leaves the integers
\* of the checker).
CalcProcessFilteredQuote ==
    /\ obs.op = "quote"
    /\ obs.quote.month <= MaxBaseCents
    /\ \E age \in 64..(65 + MaxIncreases + 1) :
         obs' = [op |-> "process_filtered_quote", quote |-> obs.quote, age |-> age,
                 quotes |-> process_filtered_quote(filter_quote(obs.quote)[1], age)]
    /\ UNCHANGED <<build_vars, other_vars>>

NextCalc == CalcProcessQuote \/ CalcProcessFilteredQuote

SpecCalc == InitCalc /\ [][NextCalc]_vars

\* The rate in cents after the first k age increases, rounded to the cent at
\* each compounding step.
RECURSIVE RoundedEachStep(_, _, _)
RoundedEachStep(base_rate, age_increases, k) ==
    IF k = 0 THEN base_rate
    ELSE RoundHalfEven(RoundedEachStep(base_rate, age_increases, k - 1)
                           * (100 + age_increases[k]), 100)

\* C21: for age a + k the calculator gives the base rate compounded by the
\* first k increases with a rounding to the cent at each compounding step, and
\* a discounted rate of that rate times (1 - discount) rounded to the cent.
C21_RoundedEachStep ==
    /\ obs.op = "process_quote" =>
          \A i \in DOMAIN obs.rows :
             LET rate == RoundedEachStep(obs.quote.month, obs.quote.age_increases, i - 1)
                 discount == IF obs.quote.discounts = <<>> THEN 0 ELSE obs.quote.discounts[1]
             IN /\ obs.rows[i].age = obs.quote.age + i - 1
                /\ obs.rows[i].rate = rate
                /\ obs.rows[i].discount_rate = RoundHalfEven(rate * (100 - discount), 100)
    /\ obs.op = "process_filtered_quote" =>
          \A i \in DOMAIN obs.quotes :
             LET k == IF obs.age - obs.quote.age < Len(obs.quote.age_increases)
                      THEN obs.age - obs.quote.age ELSE Len(obs.quote.age_increases)
                 rate == RoundedEachStep(obs.quote.month, obs.quote.age_increases, k)
                 discount == IF obs.quote.discounts = <<>> THEN 0 ELSE obs.quote.discounts[1]
             IN /\ obs.quotes[i].rate.n = rate * obs.quotes[i].rate.d
                /\ obs.quotes[i].discount_rate = RoundHalfEven(rate * (100 - discount), 100)

\* What the builder's calculator does: one rounding of the whole product, and
\* the discounted rate from that rounded rate; one record per age from the
\* base age on.
RoundedAtEnd ==
    obs.op = "process_quote" =>
        /\ Len(obs.rows) = Len(obs.quote.age_increases) + 1
        /\ \A i \in DOMAIN obs.rows :
             LET discount == IF obs.quote.discounts = <<>> THEN 0 ELSE obs.quote.discounts[1]
             IN /\ obs.rows[i].age = obs.quote.age + i - 1
                /\ obs.rows[i].rate * Power(100, i - 1) - obs.quote.month
                       * Product(<<1>> \o [j \in DOMAIN obs.quote.age_increases |->
                                             obs.quote.age_increases[j] + 100], i)
                     \in -(Power(100, i - 1) \div 2)..(Power(100, i - 1) \div 2)
                /\ obs.rows[i].discount_rate
                     = RoundHalfEven(obs.rows[i].rate * (100 - discount), 100)

\* The example of the claim: 100.00 at 65 with increases 0.05 and 0.03 gives
\* 105.00 at 66 and 108.15 at 67.
ExampleRates ==
    (/\ obs.op = "process_quote"
     /\ obs.quote.month = 10000
     /\ obs.quote.age_increases = <<5, 3>>)
        => /\ obs.rows[2].age = 66 /\ obs.rows[2].rate = 10500
           /\ obs.rows[3].age = 67 /\ obs.rows[3].rate = 10815

-----------------------------------------------------------------------------
(* The quoting facade: get_quotes over the rate cache with its fallback to
   the source *)

PLANS == {"G", "N"}

\* get_naic_list(db, state): the selected carriers of the state.
get_naic_list == {"n1", "n2"}

\* The cache of the facade: carriers n1 and n2 each with one region holding
\* ZIP code z1 of state s1, as two calls of save_region_data leave them.
FacadeRegions ==
    LET first == save_region_data([meta |-> {}, regions |-> {}, mapping |-> {}],
                                  "s1", "n1", <<{"z1", "z2"}>>, "zip5", 1, 0)
    IN save_region_data(first.db, "s1", "n2", <<{"z1"}>>, "zip5", first.uuid, 0)

\* The rate rows the cache may hold for ZIP code z1: one per carrier and plan,
\* dated on day 1.
FacadeRows ==
    {[Row(IF n = "n1" THEN 1 ELSE 2, 65, n, 10000, 9000, DateStr(1, NoTime))
         EXCEPT !.plan = p] : n \in get_naic_list, p \in PLANS}

\* A request to the facade: the plans in the order given, the carrier filter
\* ({} for none), the effective date, the day of the request, and the
\* (carrier, plan) pairs the source has a quote for.
FacadeRequests ==
    [plans : {<<"G">>, <<"N">>, <<"G", "N">>, <<"N", "G">>},
     naic : {{}, {"n1"}, {"n1", "n2"}},
     effective_date : {DateStr(1, NoTime)},
     today : 1..2,
     offered : SUBSET (get_naic_list \X PLANS)]

InitFacade ==
    /\ rate_regions = FacadeRegions.db.regions
    /\ region_metadata = FacadeRegions.db.meta
    /\ region_mapping = FacadeRegions.db.mapping
    /\ rate_store \in SUBSET FacadeRows
    /\ processed_data = {}
    /\ correction_log = <<>>
    /\ next_uuid = FacadeRegions.uuid
    /\ unit = [u \in Units |-> Finished("Pending")]
    /\ \E req \in FacadeRequests : obs = [op |-> "request", req |-> req]
    /\ source = InitialSource
    /\ spot = [pc |-> "idle"]
    /\ key_rate_store = {}
    /\ permits = [global |-> MAX_CONNECTIONS, demographic |-> DemographicPermits]
    /\ task = [t \in Tasks |-> [pc |-> "idle", kind |-> "none", holds_global |-> FALSE]]
    /\ request = [pc |-> "idle"]

\* The QuoteResponse entries made of rate rows or of quotes of the source.
QuoteResponses(pairs, origin) ==
    {[naic |-> pair[1], plan |-> pair[2], origin |-> origin] : pair \in pairs}

\* fetch_quotes_from_csg(plans, naic, effective_date, all_carriers): HTTP 400
\* (re-raised as 500) for an effective date before today, else the quotes of
\* the source for the plans, of the carriers of the query and of the filter.
fetch_quotes_from_csg(req, plans, naic, all_carriers) ==
    IF CastDate(req.effective_date) < req.today
    THEN [raised |-> TRUE, results |-> {}]
    ELSE LET queried == IF all_carriers THEN {n : n \in {pair[1] : pair \in req.offered}}
                        ELSE IF naic # {} THEN naic ELSE get_naic_list
         IN [raised |-> FALSE,
             results |-> QuoteResponses({pair \in req.offered :
                                            /\ pair[2] \in plans
                                            /\ pair[1] \in queried
                                            /\ (naic # {} => pair[1] \in naic)}, "csg")]

\* The loop of get_quotes over plans[i..]: the cached results so far, the
\* plans with no cached quote and, per plan, the carriers missing from the
\* results gathered so far.
RECURSIVE PlanLoop(_, _, _, _, _)
PlanLoop(req, i, results, plans_to_fetch, naics_to_fetch) ==
    IF i > Len(req.plans)
    THEN [results |-> results, plans_to_fetch |-> plans_to_fetch,
          naics_to_fetch |-> naics_to_fetch]
    ELSE
      LET plan == req.plans[i]
          db_results == QuoteResponses(
              {<<r.naic, r.plan>> : r \in fetch_quotes_from_db("s1", "z1", 65, FALSE, "M", plan,
                                                              req.naic, req.effective_date)},
              "db")
          naicFilt == IF req.naic # {} THEN req.naic ELSE get_naic_list
          gathered == results \cup db_results
          missing == {n \in naicFilt : ~\E q \in gathered : q.naic = n}
      IN IF db_results # {}
         THEN PlanLoop(req, i + 1, gathered, plans_to_fetch,
                       IF missing = {} THEN naics_to_fetch
                       ELSE naics_to_fetch \cup {<<plan, missing>>})
         ELSE PlanLoop(req, i + 1, results, plans_to_fetch \cup {plan}, naics_to_fetch)

\* get_quotes for carriers = "supported": the cached quotes, then the live
\* calls for what the loop found missing; an exception of a live call is
\* caught and answered by one live call for the whole request, whose own
\* exception is the answer.
get_quotes(req) ==
    LET cached == PlanLoop(req, 1, {}, {}, {})
        by_plan == IF cached.plans_to_fetch = {} THEN {}
                   ELSE {fetch_quotes_from_csg(req, cached.plans_to_fetch, req.naic, FALSE)}
        by_naic == {fetch_quotes_from_csg(req, {entry[1]}, entry[2], TRUE) :
                       entry \in cached.naics_to_fetch}
        tasks == by_plan \cup by_naic
        fallback == fetch_quotes_from_csg(req, Range(req.plans), req.naic, FALSE)
    IN IF \E t \in tasks : t.raised
       THEN [error |-> fallback.raised, results |-> fallback.results, requests |-> 1]
       ELSE [error |-> FALSE,
             results |-> cached.results \cup UNION {t.results : t \in tasks},
             requests |-> Cardinality(tasks)]

GetQuotes ==
    /\ obs.op = "request"
    /\ obs' = [op |-> "get_quotes", req |-> obs.req, answer |-> get_quotes(obs.req)]
    /\ UNCHANGED <<build_vars, other_vars>>

NextFacade == GetQuotes

SpecFacade == InitFacade /\ [][NextFacade]_vars

\* The (carrier, plan) pairs a request asks for, and those with a cached row.
Requested(req) ==
    {pair \in get_naic_list \X PLANS :
        /\ pair[2] \in Range(req.plans)
        /\ req.naic # {} => pair[1] \in req.naic}

Cached(req) == {pair \in Requested(req) : \E r \in rate_store : r.naic = pair[1] /\ r.plan = pair[2]}

\* C22: a request with a cache miss is not answered by an error; every
\* requested carrier and plan with a cached row is answered from the cache, and
\* every one with no cached row that the source has a quote for is answered by
\* a live call, in the same answer.
C22_MissFallsBack ==
    obs.op = "get_quotes" =>
        /\ ~obs.answer.error
        /\ \A pair \in Cached(obs.req) :
              [naic |-> pair[1], plan |-> pair[2], origin |-> "db"] \in obs.answer.results
        /\ \A pair \in (Requested(obs.req) \ Cached(obs.req)) \cap obs.req.offered :
              [naic |-> pair[1], plan |-> pair[2], origin |-> "csg"] \in obs.answer.results

\* A plan with no cached quote at all is fetched live, for a date not in the
\* past, and the cached quotes of the other plans come with it.
PlanMissFallsBack ==
    (obs.op = "get_quotes" /\ CastDate(obs.req.effective_date) >= obs.req.today) =>
        /\ ~obs.answer.error
        /\ \A pair \in Cached(obs.req) :
              [naic |-> pair[1], plan |-> pair[2], origin |-> "db"] \in obs.answer.results
        /\ \A pair \in Requested(obs.req) \cap obs.req.offered :
              (~\E c \in Cached(obs.req) : c[2] = pair[2])
              => [naic |-> pair[1], plan |-> pair[2], origin |-> "csg"] \in obs.answer.results

\* A request answered wholly from the cache sends nothing to the source.
FullHitNoRequest ==
    (obs.op = "get_quotes" /\ Cached(obs.req) = Requested(obs.req))
        => obs.answer.requests = 0 /\ ~obs.answer.error

-----------------------------------------------------------------------------
(* Candidate regions: how calc_naic_map_zip and build_optimized_map put the
   location group of a response into the regions found so far *)

MaxMergeZip == 6       \* ZIP codes of the state in the merge specification
OverlapPercent == 80   \* "if overlap > 0.8" of build_optimized_map

MergeZips == 1..MaxMergeZip

\* The location groups the source may report: the runs of ZIP codes from the
\* first one on and up to the last one, the empty group among them.
MergeGroups == {1..b : b \in 0..MaxMergeZip} \cup {a..MaxMergeZip : a \in MergeZips}

MergeRoutines == {"calc_naic_map_zip", "build_optimized_map"}

\* Either routine is about to start on a state with no region found yet.
InitMerge ==
    \E routine \in MergeRoutines :
        Constructed([op |-> "start", routine |-> routine, candidates |-> <<>>,
                     processed |-> {}, visited |-> {}])

\* What a routine holds after it looked at one response.
Merged(op, group, z, candidates, processed) ==
    [op |-> op, routine |-> obs.routine, before |-> obs.candidates, group |-> group,
     z |-> z, candidates |-> candidates, processed |-> processed,
     visited |-> obs.visited \cup {z}]

\* calc_naic_map_zip, the first response: its group is the first region.
\* calc_naic_map_combined2 hands over a first response with ZIP codes in it.
ZipFirst ==
    /\ obs.routine = "calc_naic_map_zip" /\ obs.op = "start"
    /\ \E zbase \in MergeGroups \ {{}} :
          obs' = [op |-> "first", routine |-> obs.routine, candidates |-> <<zbase>>,
                  processed |-> zbase, visited |-> {}]
    /\ UNCHANGED <<build_vars, other_vars>>

\* The body of the loop of calc_naic_map_zip for a response with a quote: the
\* group is looked up in lookup_list as the source returned it, the probed
\* ZIP code is added, and the group replaces the entry found or is appended.
ZipStep(lookup_list, zbase, z) ==
    LET at == existing_index(lookup_list, zbase)
    IN IF at # 0 THEN [lookup_list EXCEPT ![at] = zbase \cup {z}]
       ELSE Append(lookup_list, zbase \cup {z})

\* One pass of the loop of calc_naic_map_zip: a ZIP code not yet resolved is
\* probed and the source answers with a quote.
ZipProbe ==
    /\ obs.routine = "calc_naic_map_zip" /\ obs.op # "start"
    /\ \E z \in MergeZips \ (obs.processed \cup obs.visited), zbase \in MergeGroups :
          obs' = Merged("merge", zbase, z, ZipStep(obs.candidates, zbase, z),
                        obs.processed \cup zbase \cup {z})
    /\ UNCHANGED <<build_vars, other_vars>>

\* One pass of the loop with an empty response: only a warning is logged.
ZipEmpty ==
    /\ obs.routine = "calc_naic_map_zip" /\ obs.op # "start"
    /\ \E z \in MergeZips \ (obs.processed \cup obs.visited) :
          obs' = Merged("empty", {}, z, obs.candidates, obs.processed)
    /\ UNCHANGED <<build_vars, other_vars>>

\* overlap = len(existing_region.intersection(region_zips)) / len(region_zips);
\* overlap > 0.8
overlap_above(existing_region, region_zips) ==
    100 * Cardinality(existing_region \cap region_zips)
        > OverlapPercent * Cardinality(region_zips)

\* The "is_new_region" part of build_optimized_map: the first known region the
\* group overlaps by more than the threshold takes the group in, and a group
\* that matches none is appended.
merge_region(known_regions, region_zips) ==
    IF \E i \in DOMAIN known_regions : overlap_above(known_regions[i], region_zips)
    THEN LET i == CHOOSE i \in DOMAIN known_regions :
                    /\ overlap_above(known_regions[i], region_zips)
                    /\ \A j \in 1..(i - 1) : ~overlap_above(known_regions[j], region_zips)
         IN [known_regions EXCEPT ![i] = @ \cup region_zips]
    ELSE Append(known_regions, region_zips)

\* One iteration of build_optimized_map for one carrier: a ZIP code the
\* carrier does not cover yet is selected and the quote of the response is
\* merged.  A quote with no location is passed over.
OptimizedProbe ==
    /\ obs.routine = "build_optimized_map"
    /\ obs.processed # MergeZips
    /\ Cardinality(obs.visited) < Min(100, MaxMergeZip)
    /\ \E next_zip \in MergeZips \ (obs.processed \cup obs.visited),
          region_zips \in MergeGroups :
          obs' = IF region_zips = {}
                 THEN Merged("empty", {}, next_zip, obs.candidates, obs.processed)
                 ELSE Merged("merge", region_zips, next_zip,
                             merge_region(obs.candidates, region_zips),
                             obs.processed \cup region_zips)
    /\ UNCHANGED <<build_vars, other_vars>>

NextMerge == ZipFirst \/ ZipProbe \/ ZipEmpty \/ OptimizedProbe

SpecMerge == InitMerge /\ [][NextMerge]_vars

\* The returned group overlaps the candidate by more than the threshold.
HighOverlap(candidate, group) == group # {} /\ overlap_above(candidate, group)

\* The merge the specification describes, between the candidates before and
\* after a response with the given group: a group with a high overlap is
\* unioned into a candidate it overlaps and no region is added; any other
\* group becomes a new candidate at the end of the list.
MergedAtThreshold(before, group, after) ==
    IF \E i \in DOMAIN before : HighOverlap(before[i], group)
    THEN /\ Len(after) = Len(before)
         /\ \E i \in DOMAIN before :
               /\ HighOverlap(before[i], group)
               /\ before[i] \cup group \subseteq after[i]
               /\ \A j \in DOMAIN before : j # i => after[j] = before[j]
    ELSE /\ Len(after) = Len(before) + 1
         /\ group \subseteq after[Len(after)]
         /\ \A j \in DOMAIN before : after[j] = before[j]

\* C29: during discovery a returned group that overlaps a candidate region by
\* more than the threshold is unioned into that candidate and no region is
\* created; a group that overlaps none that much becomes a new candidate.
C29_MergeAtThreshold ==
    (obs.op = "merge" /\ obs.group # {})
        => MergedAtThreshold(obs.before, obs.group, obs.candidates)

\* build_optimized_map merges as C29 says.
OptimizedMergesAtThreshold ==
    (obs.op = "merge" /\ obs.group # {} /\ obs.routine = "build_optimized_map")
        => MergedAtThreshold(obs.before, obs.group, obs.candidates)

\* build_optimized_map took in a group that is not part of the candidate: the
\* overlap is above the threshold and below the whole group.
OptimizedPartialOverlap ==
    /\ obs.op = "merge" /\ obs.routine = "build_optimized_map"
    /\ \E i \in DOMAIN obs.before :
          /\ HighOverlap(obs.before[i], obs.group)
          /\ ~(obs.group \subseteq obs.before[i])
          /\ obs.candidates[i] = obs.before[i] \cup obs.group

\* What calc_naic_map_zip does: a group is put into a candidate only if the
\* candidate is exactly the group as the source returned it.
ZipMergesOnEquality ==
    (obs.op = "merge" /\ obs.routine = "calc_naic_map_zip")
        => IF \E i \in DOMAIN obs.before : obs.before[i] = obs.group
           THEN Len(obs.candidates) = Len(obs.before)
           ELSE /\ Len(obs.candidates) = Len(obs.before) + 1
                /\ obs.candidates[Len(obs.candidates)] = obs.group \cup {obs.z}

\* calc_naic_map_zip made a second region of a group that contains the probed
\* ZIP code and overlaps a candidate by more than the threshold.
ZipSplitsRegion ==
    /\ obs.op = "merge" /\ obs.routine = "calc_naic_map_zip"
    /\ obs.z \in obs.group
    /\ \E i \in DOMAIN obs.before : HighOverlap(obs.before[i], obs.group)
    /\ Len(obs.candidates) = Len(obs.before) + 1

-----------------------------------------------------------------------------
(* Updating one carrier of the key-based store for one effective date *)

\* MedicareSupplementRateDB._remove_rates: DELETE FROM rate_store WHERE key
\* LIKE label; the label 'state:naic:group' holds no wildcard, so the rows of
\* that key go, whatever their effective date.
remove_rates(store, label) == {r \in store : r.key # label}

\* The naic_group labels group_mapping holds for a carrier of a state.
GroupLabels(state, naic) == {k \in StoreKeys : k.state = state /\ k.naic = naic}

\* What the tasks of one label come to: the value their quotes build, or
\* NoValue when every fetch_helper returned no quote.
TaskValues == KeyValues \cup {NoValue}

\* get_rate_tasks followed by asyncio.gather of its tasks.  build_naic_requests
\* runs for every label of the carrier; for the labels in built (it returns
\* early for the others, after an error in the county lookup) it removes the
\* rows of the label and makes the tasks, whose results _save_results stores
\* under the effective date.
get_rate_tasks(store, built, fetched, effective_date) ==
    LET removed == {r \in store : r.key \notin built}
    IN removed \cup {[key |-> k, effective_date |-> effective_date, value |-> fetched[k]]
                       : k \in {b \in built : fetched[b] # NoValue}}

\* update_specific_carrier(db, state, naic, effective_date)
UpdateSpecificCarrier(state, naic, effective_date) ==
    \E built \in SUBSET GroupLabels(state, naic) :
    \E fetched \in [built -> TaskValues] :
       LET done == get_rate_tasks(key_rate_store, built, fetched, effective_date)
       IN /\ Cardinality(done) <= MaxStoreRows
          /\ key_rate_store' = done
          /\ obs' = [op |-> "update_specific_carrier", state |-> state, naic |-> naic,
                     effective_date |-> effective_date, built |-> built,
                     saved |-> {b \in built : fetched[b] # NoValue}]
          /\ UNCHANGED <<build_vars, source, spot, permits, task, request>>

UpdateCarrier == \E naic \in NAICS, effective_date \in KeyDates :
                    UpdateSpecificCarrier("s1", naic, effective_date)

NextUpdate == CopySet \/ UpdateCarrier

SpecUpdate == Init /\ [][NextUpdate]_vars

\* C38: an update of one carrier for one effective date leaves the stored rows
\* of every other effective date of that carrier as they were.
C38_OtherDatesUnchanged ==
    [][obs'.op = "update_specific_carrier"
        => \A r \in key_rate_store :
              (r.key.naic = obs'.naic /\ r.effective_date # obs'.effective_date)
                 => r \in key_rate_store']_vars

\* An update leaves the rows of every other carrier as they were.
UpdateKeepsOtherCarriers ==
    [][obs'.op = "update_specific_carrier"
        => \A r \in key_rate_store : r.key.naic # obs'.naic => r \in key_rate_store']_vars

\* After an update the labels it built hold rows of the updated date only.
UpdateLeavesOneDate ==
    obs.op = "update_specific_carrier"
       => \A r \in key_rate_store : r.key \in obs.built => r.effective_date = obs.effective_date

\* An update has stored its rows and the carrier holds rows of two months,
\* under two labels of which the update built one.
UpdatedTwoMonths ==
    /\ obs.op = "update_specific_carrier"
    /\ obs.saved # {}
    /\ \E r1, r2 \in key_rate_store :
          /\ r1.key.naic = obs.naic /\ r2.key.naic = obs.naic
          /\ r1.effective_date # r2.effective_date

-----------------------------------------------------------------------------
(* fetch_helper of build_db_new.py: the primary ZIP and its fallbacks *)

\* The primary ZIP of a request and the ZIPs a fallback list is made of.
PrimaryZip == "z1"
FallbackZips == {"z2", "z3", "z4"}

\* The zip5_fallback lists: no ZIP twice, at most MaxFallback ZIPs.
FallbackLists ==
    {f \in UNION {[1..n -> FallbackZips] : n \in 0..MaxFallback} :
        \A i, j \in DOMAIN f : i # j => f[i] # f[j]}

\* What one load_response_inner comes to: quotes, an empty list, an exception.
FetchOutcomes == {"quotes", "empty", "error"}

\* return results, label
fetch_return(r, sent, results) ==
    [r EXCEPT !.pc = "returned", !.sent = sent, !.results = results]

\* The end of a turn of the outer loop: fallback_index += 1, then the next
\* ZIP of the list, or after the loop the original ZIP and an empty return.
next_fallback(r, sent) ==
    LET fallback_index == r.fallback_index + 1
    IN IF fallback_index < Len(r.zip5_fallback)
       THEN [r EXCEPT !.fallback_index = fallback_index,
                      !.zip5 = r.zip5_fallback[fallback_index + 1],
                      !.current_retry = r.retry,
                      !.sent = sent]
       ELSE [fetch_return(r, sent, "empty") EXCEPT !.fallback_index = fallback_index,
                                                   !.zip5 = r.original_zip5]

\* One load_response_inner of the call r and what follows it up to the next.
fetch_step(r, outcome) ==
    LET sent == Append(r.sent, [zip5 |-> r.zip5, outcome |-> outcome])
    IN IF outcome = "quotes" THEN fetch_return(r, sent, "quotes")
       ELSE IF outcome = "empty"
       THEN LET counted == [r EXCEPT !.empty_results_count = r.empty_results_count + 1]
            IN IF counted.empty_results_count >= r.max_empty_attempts
               THEN fetch_return(counted, sent, "empty")
               ELSE next_fallback(counted, sent)
       ELSE IF r.current_retry > 1
       THEN [r EXCEPT !.current_retry = r.current_retry - 1, !.sent = sent]
       ELSE next_fallback(r, sent)

\* fetch_helper(args, retry, fallback_index=0, max_empty_attempts) up to its
\* first request: with an empty fallback list the outer loop takes no turn.
fetch_helper(zip5, zip5_fallback, retry, max_empty_attempts) ==
    LET r == [pc |-> "fetching", original_zip5 |-> zip5, zip5 |-> zip5,
              zip5_fallback |-> zip5_fallback, fallback_index |-> 0,
              retry |-> retry, current_retry |-> retry,
              max_empty_attempts |-> max_empty_attempts, empty_results_count |-> 0,
              sent |-> <<>>, results |-> "none"]
    IN IF 0 < Len(zip5_fallback) THEN r ELSE fetch_return(r, <<>>, "empty")

FetchStart(zip5_fallback, retry, max_empty_attempts) ==
    /\ request.pc \in {"idle", "returned"}
    /\ request' = fetch_helper(PrimaryZip, zip5_fallback, retry, max_empty_attempts)
    /\ obs' = [op |-> "fetch_helper"]
    /\ UNCHANGED <<build_vars, source, spot, key_rate_store, permits, task>>

FetchSend(outcome) ==
    /\ request.pc = "fetching"
    /\ request' = fetch_step(request, outcome)
    /\ obs' = [op |-> "load_response_inner", outcome |-> outcome]
    /\ UNCHANGED <<build_vars, source, spot, key_rate_store, permits, task>>

FetchCall == \E zip5_fallback \in FallbackLists, retry \in 1..MaxFetchRetry,
                max_empty_attempts \in 1..MaxEmptyAttempts :
                FetchStart(zip5_fallback, retry, max_empty_attempts)

FetchAnswer == \E outcome \in FetchOutcomes : FetchSend(outcome)

NextFetch == FetchCall \/ FetchAnswer

SpecFetch == Init /\ [][NextFetch]_vars

\* The locations of a call in list order: the primary ZIP, then the fallbacks.
Listed(r) == <<r.original_zip5>> \o r.zip5_fallback

\* The ZIPs the first n requests of a call went to.
Tried(r, n) == {r.sent[i].zip5 : i \in 1..n}

\* A ZIP is requested only when every location listed before it was.
InListOrder(r) ==
    \A i \in DOMAIN r.sent :
       \E j \in DOMAIN Listed(r) :
          /\ Listed(r)[j] = r.sent[i].zip5
          /\ \A k \in 1..(j - 1) : Listed(r)[k] \in Tried(r, i)

\* C39: a call asks the primary ZIP first and then the fallback ZIPs in list
\* order, until a request returns quotes; a call that has returned has sent at
\* least one request for the primary ZIP; and it has returned an empty result
\* only after a request to every listed location or max_empty_attempts empty
\* responses.
C39_PrimaryThenFallbacks ==
    request.pc \in {"fetching", "returned"} =>
       /\ InListOrder(request)
       /\ \A i \in DOMAIN request.sent :
             request.sent[i].outcome = "quotes"
                => i = Len(request.sent) /\ request.pc = "returned"
                   /\ request.results = "quotes"
       /\ request.pc = "returned"
             => Len(request.sent) >= 1 /\ request.sent[1].zip5 = request.original_zip5
       /\ (request.pc = "returned" /\ request.results = "empty")
             => \/ \A j \in DOMAIN Listed(request) :
                      Listed(request)[j] \in Tried(request, Len(request.sent))
                \/ request.empty_results_count >= request.max_empty_attempts

\* What the loop asks: the primary ZIP, then the fallbacks from the second of
\* the list on, in list order; the first fallback is never asked.
AsksFromSecondFallback ==
    request.pc \in {"fetching", "returned"} =>
       /\ \A i \in DOMAIN request.sent :
             \/ request.sent[i].zip5 = request.original_zip5
             \/ \E j \in 2..Len(request.zip5_fallback) :
                   /\ request.sent[i].zip5 = request.zip5_fallback[j]
                   /\ \A k \in 2..(j - 1) : request.zip5_fallback[k] \in Tried(request, i)
       /\ request.sent # <<>> => request.sent[1].zip5 = request.original_zip5

\* A call returns quotes with the first request that gives any.
ReturnsFirstQuotes ==
    request.pc \in {"fetching", "returned"} =>
       \A i \in DOMAIN request.sent :
          request.sent[i].outcome = "quotes"
             => i = Len(request.sent) /\ request.pc = "returned" /\ request.results = "quotes"

\* A call with an empty fallback list has returned without a request.
ReturnedWithoutRequest ==
    /\ request.pc = "returned"
    /\ request.sent = <<>>
    /\ request.zip5_fallback = <<>>

\* A call has returned an empty result while the first fallback was not asked
\* and fewer than max_empty_attempts empty responses were seen.
FirstFallbackSkipped ==
    /\ request.pc = "returned" /\ request.results = "empty"
    /\ Len(request.zip5_fallback) >= 2
    /\ request.zip5_fallback[1] \notin Tried(request, Len(request.sent))
    /\ request.empty_results_count < request.max_empty_attempts

-----------------------------------------------------------------------------
(* copy_latest_rates of build_db_new.py *)

\* The order of the 'YYYY-MM-DD' texts of effective_date.
KeyDateLeq(a, b) == a.month < b.month \/ (a.month = b.month /\ a.day <= b.day)

\* MedicareSupplementRateDB.get_most_recent_rates: per key of the carrier
\* (PARTITION BY the group of the key) the row that comes first under ORDER BY
\* effective_date DESC.  The query has no condition on the date.
get_most_recent_rates(store, state, naic) ==
    {r \in store :
        /\ r.key.state = state /\ r.key.naic = naic
        /\ \A o \in store : o.key = r.key => KeyDateLeq(o.effective_date, r.effective_date)}

\* MedicareSupplementRateDB.copy_latest_rates: nothing when force is not set
\* and the target date has a row of the carrier with valid JSON, else INSERT
\* OR REPLACE of the most recent row of every key at the target date.
copy_latest_rates(store, state, naic, target_date, force) ==
    IF ~force /\ \E r \in store : /\ r.key.state = state /\ r.key.naic = naic
                                  /\ r.effective_date = target_date
    THEN store
    ELSE insert_or_replace(store,
            {[key |-> r.key, effective_date |-> target_date, value |-> r.value]
                : r \in get_most_recent_rates(store, state, naic)})

CopyLatestRates(state, naic, target_date, force) ==
    LET done == copy_latest_rates(key_rate_store, state, naic, target_date, force)
    IN /\ Cardinality(done) <= MaxStoreRows
       /\ key_rate_store' = done
       /\ obs' = [op |-> "copy_latest_rates", state |-> state, naic |-> naic,
                  target_date |-> target_date, force |-> force]
       /\ UNCHANGED <<build_vars, source, spot, permits, task, request>>

CopyLatest == \E naic \in NAICS, target_date \in KeyDates, force \in BOOLEAN :
                 CopyLatestRates("s1", naic, target_date, force)

NextLatest == CopySet \/ CopyLatest

SpecLatest == Init /\ [][NextLatest]_vars

\* The rows of a key dated at or before a date.
RowsUpTo(store, key, date) ==
    {r \in store : r.key = key /\ KeyDateLeq(r.effective_date, date)}

\* The value of the row of a key with the largest date at or before a date,
\* NoValue when the key has no such row.
LatestUpTo(store, key, date) ==
    LET rows == RowsUpTo(store, key, date)
    IN IF rows = {} THEN NoValue
       ELSE (CHOOSE r \in rows :
                \A o \in rows : KeyDateLeq(o.effective_date, r.effective_date)).value

\* The target date holds a row of the carrier.
TargetHasRows(store, o) ==
    \E r \in store : /\ r.key.state = o.state /\ r.key.naic = o.naic
                     /\ r.effective_date = o.target_date

\* C40: copy_latest_rates(state, carrier, targetDate) leaves at targetDate,
\* for every rate group of the carrier, the stored row with the largest
\* effective date not after targetDate, and no row for a group that has none,
\* so it copies no row dated after targetDate; and it changes nothing when
\* targetDate already has rows and force is not set.
C40_CopiesLatestNotAfter ==
    [][obs'.op = "copy_latest_rates"
        => IF ~obs'.force /\ TargetHasRows(key_rate_store, obs')
           THEN key_rate_store' = key_rate_store
           ELSE \A k \in GroupLabels(obs'.state, obs'.naic) :
                   get_rate(key_rate_store', k, obs'.target_date)
                      = LatestUpTo(key_rate_store, k, obs'.target_date)]_vars

\* With no row of the carrier dated after the target date, a copy that is not
\* skipped leaves at the target date the latest row of every group.
CopiesLatestWhenNoneLater ==
    [][(/\ obs'.op = "copy_latest_rates"
        /\ obs'.force \/ ~TargetHasRows(key_rate_store, obs')
        /\ \A r \in key_rate_store :
              r.key.naic = obs'.naic => KeyDateLeq(r.effective_date, obs'.target_date))
        => \A k \in GroupLabels(obs'.state, obs'.naic) :
              get_rate(key_rate_store', k, obs'.target_date)
                 = LatestUpTo(key_rate_store, k, obs'.target_date)]_vars

\* Without force a copy changes nothing when the target date has rows.
NoCopyOntoValidTarget ==
    [][(obs'.op = "copy_latest_rates" /\ ~obs'.force /\ TargetHasRows(key_rate_store, obs'))
        => key_rate_store' = key_rate_store]_vars

\* A copy writes rows at the target date only, for keys of the carrier only.
CopyLatestWritesTargetOnly ==
    [][obs'.op = "copy_latest_rates"
        => \A r \in key_rate_store :
              (r.effective_date # obs'.target_date \/ r.key.naic # obs'.naic)
                 => r \in key_rate_store']_vars

\* The target date holds the copy of a row dated after it.
LaterRowCopied ==
    /\ obs.op = "copy_latest_rates"
    /\ \E r, l \in key_rate_store :
          /\ r.key = l.key /\ r.key.naic = obs.naic
          /\ r.effective_date = obs.target_date
          /\ l.effective_date # r.effective_date
          /\ KeyDateLeq(r.effective_date, l.effective_date)
          /\ r.value = l.value
          /\ \A o \in key_rate_store : o.key = r.key => o \in {r, l}

====
